---- MODULE Spec2Model ----
(***************************************************************************)
(* A model of the mail-printer supervisor (ApiPoller): the circuit breaker  *)
(* of classes/network_client.py, the recovery manager's durable queue of    *)
(* classes/recovery_manager.py and the acknowledgment path of ApiPoller.py. *)
(*                                                                          *)
(* The module holds several specifications over one set of variables; each  *)
(* leaves the variables of the other parts at their initial values:         *)
(*   Spec       the circuit breaker under concurrent callers                *)
(*   SpecQueue  the RecoveryManager driven through its public methods, with *)
(*              process restarts                                            *)
(*   SpecApp    the orchestrator's startup and acknowledgment path          *)
(*   SpecDevice the polling thread of ApiPoller.py and its device state,    *)
(*              with request_with_retry and the recovery step by step       *)
(*   SpecFlag   the polling thread, the flag threads and the button         *)
(*   SpecPrint  track_print, poll by poll                                   *)
(*   SpecWaits  handle_critical_failure's waits between reboots             *)
(*   SpecState  the polling thread and a flag thread as writers of the      *)
(*              device state, with their requests, callbacks and reboots    *)
(***************************************************************************)
EXTENDS Integers, Sequences, FiniteSets, TLC

----------------------------------------------------------------------------
(* Bounds and parameters                                                    *)

\* CircuitBreaker(failure_threshold=...): configurable, scaled down.
failure_threshold == 3
\* CircuitBreaker(cooldown=...): configurable, in clock ticks, scaled down.
cooldown == 1
\* The clock stops ticking at MaxTime.
MaxTime == 3
\* self.last_failure_time = None
NoTime == -1

\* handle_critical_failure(max_reboots=...): scaled down.
max_reboots == 2
\* retry_pending_acks is not started once an entry's retry_count is MaxRetryCount.
MaxRetryCount == 2

\* Threads that issue requests through the one NetworkClient: the polling
\* loop (main thread) and a flag thread (raise_flag -> send_collection_event).
Callers == {"poll", "flag"}

CircuitStates == {"CLOSED", "OPEN", "HALF_OPEN"}

\* Acknowledgment ids: str(message_id) of a message, str(command_id) of a command.
MessageIds == {"m1"}
CommandIds == {"c1"}
AckIds == MessageIds \cup CommandIds
\* ack_id="connection_lost" of on_network_connection_lost
ConnectionLostId == "connection_lost"

----------------------------------------------------------------------------
VARIABLES
    \* ---- CircuitBreaker fields
    cb_state,            \* self.state
    failures,            \* self.failures
    last_failure_time,   \* self.last_failure_time
    now,                 \* time.time()
    \* ---- one activation of CircuitBreaker.call per caller
    pc,                  \* "idle" | "func" (inside func) | "probe" (record_failure, lock released)
    \* ---- observation (history) variables, written but never read by the code
    ev,                  \* the last breaker step: what ran, on what state, with what outcome
    nfailed,             \* failed calls since construction, saturating at failure_threshold
    consec,              \* failed calls since the last successful one, saturating likewise
    probe_ever_ok,       \* some connectivity probe has succeeded
    closed_since_open,   \* no opening yet, or a HALF_OPEN trial succeeded since the last one
    ever_rejected,       \* some call was refused with CircuitBreakerOpenException
    capped,              \* a failed probe has set failures back, no opening or reset since
    \* ---- RecoveryManager fields and its queue file
    pending_acks,        \* self.pending_acks: ack_id -> retry_count of the entry
    queue_file,          \* pending_acks.json on disk
    modem_rebooted,      \* self.modem_rebooted
    \* ---- NetworkClient flags
    connection_failed,   \* self.connection_failed
    connection_weak,     \* self.connection_weak
    \* ---- control of the (single) thread that runs the recovery code
    main_pc,             \* "boot" (process started, nothing constructed) | "loop"
    stack,               \* activations, innermost last
    ret,                 \* value returned by the activation that ended last
    \* ---- observation (history) variables
    obligations,         \* ids whose add_pending_ack completed, no retry succeeded since
    torn_restart,        \* the process was restarted while the queue file was half-written
    replay,              \* retry_pending_acks: the last replay, its result and old count
    ack_result,          \* ack_message / ackCommand: the last return, and what it achieved
    loaded,              \* ids loaded from the queue file at the last start
    attempted,           \* ids for which a delivery was attempted since the last start
    hcf_result,          \* handle_critical_failure: the last return, its value and attempts
    \* ---- the orchestrator's globals
    state,               \* state (DeviceState)
    state_before_connection_issue,
    flag_raised,         \* flag_raised
    button_press_event,  \* button_press_event.is_set()
    ack_complete_event,  \* the Event handle_message hands to raise_flag: "none" | "clear" | "set"
    pending_message_ids, \* pending_message_ids
    collections_file,    \* pending_collections.json on disk
    \* ---- control: one call stack per thread, and the value returned last
    calls,
    rv,
    handled,             \* messages fetched so far
    \* ---- track_print's locals (job_found, last_error, ...) and the spooler's job
    tp,
    \* ---- observation (history) variables
    sw,                  \* the last write of state: by which function, under state_lock or not
    cbk,                 \* connection callbacks since the last restore
    rest,                \* the last on_network_connection_restored
    order,               \* handle_message: the steps taken for the current message
    fl,                  \* raise_flag: what it saw when it flushed and reset the state
    \* ---- one activation of handle_critical_failure with its wait schedule
    hw,
    \* ---- the polling thread and a flag thread as writers of the device state
    th,
    \* ---- one caller of getHeaders and the worker thread of its executor
    gh,
    \* ---- the threads of the orchestrator as users of its four locks
    lk

rmvars == <<pending_acks, queue_file, modem_rebooted, connection_failed, connection_weak,
            main_pc, stack, ret, obligations, torn_restart, replay, ack_result, loaded,
            attempted, hcf_result>>

cbvars == <<cb_state, failures, last_failure_time, now, pc, ev, nfailed, consec,
            probe_ever_ok, closed_since_open, ever_rejected, capped>>

devcore == <<state, state_before_connection_issue, flag_raised, button_press_event,
             ack_complete_event, pending_message_ids, collections_file, calls, rv,
             handled, tp, sw, cbk, rest, order, fl>>

\* the variables of the small specifications
sidevars == <<hw, th, gh, lk>>

devvars == <<devcore, sidevars>>

vars == <<cbvars, rmvars, devvars>>

----------------------------------------------------------------------------
(* CircuitBreaker: pure parts                                               *)

Sat(n) == IF n >= failure_threshold THEN failure_threshold ELSE n

\* call: time.time() - self.last_failure_time > self.cooldown
CooldownElapsedInclusive(t, lft) == t - lft >= cooldown
CooldownElapsed(t, lft) == t - lft > cooldown

\* record_failure: self.failures >= self.failure_threshold and self.state != OPEN
ShouldCheckOffByOne(f, s) == f >= failure_threshold - 1 /\ s # "OPEN"
ShouldCheckAnyState(f, s) == f >= failure_threshold
ShouldCheckClosedOnly(f, s) == f >= failure_threshold /\ s = "CLOSED"
ShouldCheck(f, s) == f >= failure_threshold /\ s # "OPEN"

\* record_failure: self.failures = self.failure_threshold - 1
CappedFailuresUncapped(f) == f
CappedFailures(f) == failure_threshold - 1

\* _reset_unlocked: was_open = self.state == CircuitState.OPEN
WasOpen(s) == s = "OPEN"

\* call: "if self.state == CircuitState.HALF_OPEN" after func returned
ResetsOnSuccess(s) == s = "HALF_OPEN"

NoEvent == [op |-> "init", t |-> "poll", at |-> 0, pre |-> "CLOSED", f0 |-> 0,
            lft0 |-> NoTime, cso0 |-> TRUE, out |-> "none", on_open |-> FALSE,
            on_close |-> FALSE, probe |-> "none", capped0 |-> FALSE]

Event(op, t, out, opened, closed, probe) ==
    [op |-> op, t |-> t, at |-> now, pre |-> cb_state, f0 |-> failures,
     lft0 |-> last_failure_time, cso0 |-> closed_since_open, out |-> out,
     on_open |-> opened, on_close |-> closed, probe |-> probe, capped0 |-> capped]

----------------------------------------------------------------------------
(* CircuitBreaker: steps                                                    *)

InitBreaker ==
    /\ cb_state = "CLOSED"
    /\ failures = 0
    /\ last_failure_time = NoTime
    /\ now = 0
    /\ pc = [t \in Callers |-> "idle"]
    /\ ev = NoEvent
    /\ nfailed = 0
    /\ consec = 0
    /\ probe_ever_ok = FALSE
    /\ closed_since_open = TRUE
    /\ ever_rejected = FALSE
    /\ capped = FALSE

\* time passes
Tick ==
    /\ now < MaxTime
    /\ now' = now + 1
    /\ UNCHANGED <<cb_state, failures, last_failure_time, pc, ev, nfailed, consec,
                   probe_ever_ok, closed_since_open, ever_rejected, capped>>

\* call, first critical section: the gate.
CallGate(t) ==
    /\ pc[t] = "idle"
    /\ IF cb_state = "OPEN"
       THEN IF CooldownElapsed(now, last_failure_time)
            THEN /\ cb_state' = "HALF_OPEN"
                 /\ pc' = [pc EXCEPT ![t] = "func"]
                 /\ ev' = Event("gate", t, "invoke", FALSE, FALSE, "none")
                 /\ ever_rejected' = ever_rejected
            ELSE \* raise CircuitBreakerOpenException
                 /\ cb_state' = cb_state
                 /\ pc' = pc
                 /\ ev' = Event("gate", t, "rejected", FALSE, FALSE, "none")
                 /\ ever_rejected' = TRUE
       ELSE /\ cb_state' = cb_state
            /\ pc' = [pc EXCEPT ![t] = "func"]
            /\ ev' = Event("gate", t, "invoke", FALSE, FALSE, "none")
            /\ ever_rejected' = ever_rejected
    /\ UNCHANGED <<failures, last_failure_time, now, nfailed, consec,
                   probe_ever_ok, closed_since_open, capped>>

\* call: func returned a result; second critical section, then return result.
CallSuccess(t) ==
    /\ pc[t] = "func"
    /\ IF ResetsOnSuccess(cb_state)
       THEN \* _reset_unlocked
            /\ failures' = 0
            /\ cb_state' = "CLOSED"
            /\ ev' = Event("func_ok", t, "returned", FALSE, WasOpen(cb_state), "none")
            /\ closed_since_open' = TRUE
       ELSE /\ UNCHANGED <<failures, cb_state, closed_since_open>>
            /\ ev' = Event("func_ok", t, "returned", FALSE, FALSE, "none")
    /\ pc' = [pc EXCEPT ![t] = "idle"]
    /\ consec' = 0
    /\ capped' = (capped /\ ~ResetsOnSuccess(cb_state))
    /\ UNCHANGED <<last_failure_time, now, nfailed, probe_ever_ok, ever_rejected>>

\* call: func raised; record_failure, first critical section.
RecordFailureCount(t) ==
    /\ pc[t] = "func"
    /\ failures' = failures + 1
    /\ last_failure_time' = now
    /\ nfailed' = Sat(nfailed + 1)
    /\ consec' = Sat(consec + 1)
    /\ IF ShouldCheck(failures', cb_state)
       THEN /\ pc' = [pc EXCEPT ![t] = "probe"]
            /\ ev' = Event("rf_count", t, "none", FALSE, FALSE, "none")
       ELSE \* record_failure returns, call re-raises
            /\ pc' = [pc EXCEPT ![t] = "idle"]
            /\ ev' = Event("rf_count", t, "raised", FALSE, FALSE, "none")
    /\ UNCHANGED <<cb_state, now, probe_ever_ok, closed_since_open, ever_rejected, capped>>

\* record_failure: check_internet_connectivity() without the lock, then the
\* second critical section; record_failure returns and call re-raises.
RecordFailureRecheck(t) ==
    /\ pc[t] = "probe"
    /\ \E has_internet \in BOOLEAN :
          /\ probe_ever_ok' = (probe_ever_ok \/ has_internet)
          /\ IF ShouldCheck(failures, cb_state)
             THEN IF has_internet
                  THEN /\ cb_state' = "OPEN"
                       /\ failures' = failures
                       /\ closed_since_open' = FALSE
                       /\ capped' = FALSE
                       /\ ev' = Event("rf_recheck", t, "raised", TRUE, FALSE, "up")
                  ELSE /\ cb_state' = cb_state
                       /\ failures' = CappedFailures(failures)
                       /\ closed_since_open' = closed_since_open
                       /\ capped' = TRUE
                       /\ ev' = Event("rf_recheck", t, "raised", FALSE, FALSE, "down")
             ELSE /\ UNCHANGED <<cb_state, failures, closed_since_open, capped>>
                  /\ ev' = Event("rf_recheck", t, "raised", FALSE, FALSE,
                                 IF has_internet THEN "up" ELSE "down")
    /\ pc' = [pc EXCEPT ![t] = "idle"]
    /\ UNCHANGED <<last_failure_time, now, nfailed, consec, ever_rejected>>

----------------------------------------------------------------------------
(* RecoveryManager: the queue and its file                                  *)

\* A dict ack_id -> entry is a function from the ids present to the entry's
\* retry_count ('data' is determined by the id and 'timestamp' is never read).
EmptyDict == [k \in {} |-> 0]
Has(d, k) == k \in DOMAIN d
Put(d, k, v) == [x \in (DOMAIN d) \cup {k} |-> IF x = k THEN v ELSE d[x]]
Del(d, k) == [x \in (DOMAIN d) \ {k} |-> d[x]]

\* The file: missing, holding a complete JSON document, or "torn": opened with
\* mode 'w' (truncated) and not yet, or only partly, written.
FileAbsent == [kind |-> "absent", data |-> EmptyDict]
FileTorn == [kind |-> "torn", data |-> EmptyDict]
\* json.dump: keys are strings already, counts are ints: json.load gives back
\* an equal dict.
FileOf(d) == [kind |-> "json", data |-> d]

\* _load_queue: {} when the file is missing or json.load raises
LoadQueue(f) == IF f.kind = "json" THEN f.data ELSE EmptyDict

\* add_pending_ack: the new entry, 'retry_count': 0
NewEntry(d, k) == 0

\* retry_pending_acks: self.pending_acks[ack_id]['retry_count'] = retry_count + 1
FailedReplay(d, k) == Put(d, k, d[k] + 1)

\* handle_critical_failure: for attempt in range(max_reboots)
MoreRebootsInclusive(k) == k <= max_reboots
MoreReboots(k) == k < max_reboots

\* ack_message / ackCommand: if get_connection_type() == "wifi": return
SkipsRecovery(conn) == conn = "wifi"

ConnectionTypes == {"wifi", "lte"}

----------------------------------------------------------------------------
(* Activations                                                              *)

Frame(fn, id, fpc, k, todo, cb) ==
    [fn |-> fn, id |-> id, pc |-> fpc, k |-> k, todo |-> todo, cb |-> cb]

Depth == Len(stack)
Top == stack[Depth]
Running(fn, fpc) == Depth > 0 /\ Top.fn = fn /\ Top.pc = fpc
Pop == SubSeq(stack, 1, Depth - 1)
Goto(fpc) == [stack EXCEPT ![Depth] = [@ EXCEPT !.pc = fpc]]
Push(st, f) == Append(st, f)

NoReplay == [id |-> "", res |-> "none", rc0 |-> 0]
NoAck == [id |-> "", done |-> FALSE, delivered |-> FALSE, conn |-> "none"]
NoHcf == [id |-> "", done |-> FALSE, ret |-> FALSE, tries |-> 0, won |-> FALSE]
\* handle_critical_failure returned r for ack_id id after `tries` calls of
\* retry_callback, of which one returned success iff won.
HcfReturn(id, r, tries, won) ==
    [id |-> id, done |-> TRUE, ret |-> r, tries |-> tries, won |-> won]

InitRecovery ==
    /\ pending_acks = EmptyDict
    /\ queue_file = FileAbsent
    /\ modem_rebooted = FALSE
    /\ connection_failed = FALSE
    /\ connection_weak = FALSE
    /\ main_pc = "boot"
    /\ stack = << >>
    /\ ret = FALSE
    /\ obligations = {}
    /\ torn_restart = FALSE
    /\ replay = NoReplay
    /\ ack_result = NoAck
    /\ loaded = {}
    /\ attempted = {}
    /\ hcf_result = NoHcf

----------------------------------------------------------------------------
(* RecoveryManager: steps                                                   *)

\* _save_queue, open(self.queue_file, 'w'): the file is truncated.
SaveOpen ==
    /\ Depth > 0
    /\ Top.pc \in {"add_save", "rm_save", "inc_save", "del_save"}
    /\ queue_file' = FileTorn
    /\ stack' = Goto(CASE Top.pc = "add_save" -> "add_write"
                       [] Top.pc = "rm_save" -> "rm_write"
                       [] Top.pc = "inc_save" -> "inc_write"
                       [] Top.pc = "del_save" -> "del_write")
    /\ UNCHANGED <<pending_acks, modem_rebooted, connection_failed, connection_weak,
                   main_pc, ret, obligations, torn_restart, hcf_result, replay, ack_result, loaded,
                   attempted>>

\* _save_queue, json.dump and close: the file holds the whole dict. Then the
\* caller goes on: add_pending_ack returns into handle_critical_failure's loop;
\* remove_pending_ack returns, then reset_escalation_state() and return True;
\* retry_pending_acks goes to its next entry.
SaveWrite ==
    /\ Depth > 0
    /\ Top.pc \in {"add_write", "rm_write", "inc_write", "del_write"}
    /\ queue_file' = FileOf(pending_acks)
    /\ CASE Top.pc = "add_write" ->
              /\ stack' = Goto("loop")
              /\ obligations' = obligations \cup {Top.id}
              /\ UNCHANGED <<modem_rebooted, ret, hcf_result>>
         [] Top.pc = "rm_write" ->
              /\ modem_rebooted' = FALSE
              /\ stack' = Pop
              /\ ret' = TRUE
              /\ hcf_result' = HcfReturn(Top.id, TRUE, Top.k + 1, TRUE)
              /\ UNCHANGED obligations
         [] Top.pc \in {"inc_write", "del_write"} ->
              /\ stack' = Goto("next")
              /\ UNCHANGED <<modem_rebooted, ret, obligations, hcf_result>>
    /\ UNCHANGED <<pending_acks, connection_failed, connection_weak, main_pc,
                   torn_restart, replay, ack_result, loaded, attempted>>

\* handle_critical_failure: add_pending_ack(ack_id, ack_data), the dict update.
HcfAdd ==
    /\ Running("hcf", "add")
    /\ pending_acks' = Put(pending_acks, Top.id, NewEntry(pending_acks, Top.id))
    /\ stack' = Goto("add_save")
    /\ UNCHANGED <<queue_file, modem_rebooted, connection_failed, connection_weak,
                   main_pc, ret, obligations, torn_restart, hcf_result, replay, ack_result, loaded,
                   attempted>>

\* handle_critical_failure: the head of the for loop; self.modem_rebooted =
\* False on entry to the body, "Giving up" and return False after the loop.
HcfLoop ==
    /\ Running("hcf", "loop")
    /\ IF MoreReboots(Top.k)
       THEN /\ modem_rebooted' = FALSE
            /\ stack' = Goto("reboot")
            /\ ret' = ret
            /\ hcf_result' = hcf_result
       ELSE /\ stack' = Pop
            /\ ret' = FALSE
            /\ modem_rebooted' = modem_rebooted
            /\ hcf_result' = HcfReturn(Top.id, FALSE, Top.k, FALSE)
    /\ UNCHANGED <<pending_acks, queue_file, connection_failed, connection_weak, main_pc,
                   obligations, torn_restart, replay, ack_result, loaded, attempted>>

\* escalate_modem_reboot: modem_rebooted is False here, the callback
\* (reboot_modem) catches its own errors, so the reboot is triggered and True
\* returned; then time.sleep(wait_time).
HcfReboot ==
    /\ Running("hcf", "reboot")
    /\ modem_rebooted' = TRUE
    /\ stack' = Goto("retry")
    /\ UNCHANGED <<pending_acks, queue_file, connection_failed, connection_weak, main_pc,
                   ret, obligations, torn_restart, hcf_result, replay, ack_result, loaded, attempted>>

\* handle_critical_failure: result = retry_callback(). The orchestrator's
\* callbacks (try_ack, retry_connection) make one NetworkClient request; a
\* callback of the test driver ("any") returns True or False, or raises.
HcfRetry ==
    /\ Running("hcf", "retry")
    /\ IF Top.cb = "any"
       THEN /\ \E r \in {"true", "false", "raise"} : ret' = (r = "true")
            /\ stack' = Goto("got")
            /\ attempted' = attempted \cup {Top.id}
       ELSE /\ stack' = Push(Goto("got"), Frame("post", Top.id, "send", 0, {}, Top.cb))
            /\ UNCHANGED <<ret, attempted>>
    /\ UNCHANGED <<pending_acks, queue_file, modem_rebooted, connection_failed,
                   connection_weak, main_pc, obligations, torn_restart, hcf_result, replay,
                   ack_result, loaded>>

\* handle_critical_failure: "if result:" remove_pending_ack(ack_id) (the dict
\* update; the save follows), else the next attempt.
HcfGot ==
    /\ Running("hcf", "got")
    /\ IF ret
       THEN /\ obligations' = obligations \ {Top.id}
            /\ IF Has(pending_acks, Top.id)
               THEN /\ pending_acks' = Del(pending_acks, Top.id)
                    /\ stack' = Goto("rm_save")
                    /\ UNCHANGED <<modem_rebooted, ret, hcf_result>>
               ELSE /\ modem_rebooted' = FALSE
                    /\ stack' = Pop
                    /\ ret' = TRUE
                    /\ hcf_result' = HcfReturn(Top.id, TRUE, Top.k + 1, TRUE)
                    /\ UNCHANGED pending_acks
       ELSE /\ stack' = [stack EXCEPT ![Depth] = [@ EXCEPT !.pc = "loop", !.k = @ + 1]]
            /\ UNCHANGED <<pending_acks, modem_rebooted, ret, obligations, hcf_result>>
    /\ UNCHANGED <<queue_file, connection_failed, connection_weak, main_pc, torn_restart,
                   replay, ack_result, loaded, attempted>>

\* retry_pending_acks: one iteration of the loop over list(pending_acks.items()).
RpaNext ==
    /\ Running("rpa", "next")
    /\ IF Top.todo = {}
       THEN /\ stack' = Pop
            /\ UNCHANGED <<pending_acks, obligations, replay, attempted>>
       ELSE \E id \in Top.todo, r \in {"true", "false", "raise"} :
            /\ replay' = [id |-> id, res |-> r, rc0 |-> pending_acks[id]]
            /\ attempted' = attempted \cup {id}
            /\ IF r = "true"
               THEN \* remove_pending_ack
                    /\ pending_acks' = Del(pending_acks, id)
                    /\ obligations' = obligations \ {id}
                    /\ stack' = [stack EXCEPT ![Depth] =
                                    [@ EXCEPT !.pc = "del_save", !.todo = @ \ {id}]]
               ELSE /\ pending_acks' = FailedReplay(pending_acks, id)
                    /\ obligations' = obligations
                    /\ stack' = [stack EXCEPT ![Depth] =
                                    [@ EXCEPT !.pc = "inc_save", !.todo = @ \ {id}]]
    /\ UNCHANGED <<queue_file, modem_rebooted, connection_failed, connection_weak,
                   main_pc, ret, torn_restart, hcf_result, ack_result, loaded>>

----------------------------------------------------------------------------
(* The driver of SpecQueue: a client of the RecoveryManager                 *)

\* recovery_manager.handle_critical_failure(name, ack_id, ack_data, callback)
QHandleCriticalFailure(id) ==
    /\ Depth = 0
    /\ stack' = Push(stack, Frame("hcf", id, "add", 0, {}, "any"))
    /\ replay' = NoReplay
    /\ hcf_result' = NoHcf
    /\ UNCHANGED <<pending_acks, queue_file, modem_rebooted, connection_failed,
                   connection_weak, main_pc, ret, obligations, torn_restart, ack_result,
                   loaded, attempted>>

\* recovery_manager.retry_pending_acks(callback): "if not self.pending_acks: return"
QRetryPendingAcks ==
    /\ Depth = 0
    /\ \A k \in DOMAIN pending_acks : pending_acks[k] < MaxRetryCount
    /\ IF pending_acks = EmptyDict
       THEN stack' = stack
       ELSE stack' = Push(stack, Frame("rpa", "", "next", 0, DOMAIN pending_acks, "any"))
    /\ replay' = NoReplay
    /\ hcf_result' = NoHcf
    /\ UNCHANGED <<pending_acks, queue_file, modem_rebooted, connection_failed,
                   connection_weak, main_pc, ret, obligations, torn_restart, ack_result,
                   loaded, attempted>>

\* The process dies at any point and is started again: RecoveryManager()
\* rebuilds pending_acks from the file.
QRestart ==
    /\ pending_acks' = LoadQueue(queue_file)
    /\ modem_rebooted' = FALSE
    /\ stack' = << >>
    /\ ret' = FALSE
    /\ replay' = NoReplay
    /\ torn_restart' = (torn_restart \/ queue_file.kind = "torn")
    /\ loaded' = DOMAIN pending_acks'
    /\ attempted' = {}
    /\ hcf_result' = NoHcf
    /\ UNCHANGED <<queue_file, connection_failed, connection_weak, main_pc, obligations,
                   ack_result>>

----------------------------------------------------------------------------
(* The orchestrator: start-up and the acknowledgment path                   *)

\* __main__ up to the main loop: init_network_client() constructs the
\* NetworkClient and the RecoveryManager (which loads the queue file).
AppStart ==
    /\ main_pc = "boot"
    /\ main_pc' = "loop"
    /\ pending_acks' = LoadQueue(queue_file)
    /\ modem_rebooted' = FALSE
    /\ connection_failed' = FALSE
    /\ connection_weak' = FALSE
    /\ loaded' = DOMAIN pending_acks'
    /\ attempted' = {}
    /\ hcf_result' = NoHcf
    /\ UNCHANGED <<queue_file, stack, ret, obligations, torn_restart, replay, ack_result>>

\* The process dies at any point after start-up (power loss, "sudo reboot", the
\* main loop giving up) and is started again.
AppRestart ==
    /\ main_pc = "loop"
    /\ main_pc' = "boot"
    /\ pending_acks' = EmptyDict
    /\ modem_rebooted' = FALSE
    /\ connection_failed' = FALSE
    /\ connection_weak' = FALSE
    /\ stack' = << >>
    /\ ret' = FALSE
    /\ ack_result' = NoAck
    /\ torn_restart' = (torn_restart \/ queue_file.kind = "torn")
    /\ loaded' = {}
    /\ attempted' = {}
    /\ hcf_result' = NoHcf
    /\ UNCHANGED <<queue_file, obligations, replay>>

\* The main loop reaches ack_message(message_id) (from handle_message) or
\* ackCommand(command_id) (from dispatchCommand).
AppAck(id) ==
    /\ main_pc = "loop"
    /\ Depth = 0
    /\ stack' = Push(stack, Frame("ack", id, "try", 0, {}, "try_ack"))
    /\ ack_result' = NoAck
    /\ hcf_result' = NoHcf
    /\ UNCHANGED <<pending_acks, queue_file, modem_rebooted, connection_failed,
                   connection_weak, main_pc, ret, obligations, torn_restart, replay,
                   loaded, attempted>>

\* ack_message / ackCommand: success = try_ack()
AckTry ==
    /\ Running("ack", "try")
    /\ stack' = Push(Goto("got"), Frame("post", Top.id, "send", 0, {}, "try_ack"))
    /\ UNCHANGED <<pending_acks, queue_file, modem_rebooted, connection_failed,
                   connection_weak, main_pc, ret, obligations, torn_restart, hcf_result, replay,
                   ack_result, loaded, attempted>>

\* ack_message / ackCommand: "if not success:", the wifi early return, else
\* recovery_manager.handle_critical_failure(..., retry_callback=try_ack)
AckGot ==
    /\ Running("ack", "got")
    /\ IF ret
       THEN /\ stack' = Pop
            /\ ack_result' = [id |-> Top.id, done |-> TRUE, delivered |-> TRUE,
                              conn |-> "none"]
       ELSE \E conn \in ConnectionTypes :
            IF SkipsRecovery(conn)
            THEN /\ stack' = Pop
                 /\ ack_result' = [id |-> Top.id, done |-> TRUE, delivered |-> FALSE,
                                   conn |-> conn]
            ELSE /\ stack' = Push([stack EXCEPT ![Depth] = [@ EXCEPT !.pc = "end",
                                                                     !.cb = conn]],
                                  Frame("hcf", Top.id, "add", 0, {}, "try_ack"))
                 /\ ack_result' = ack_result
    /\ UNCHANGED <<pending_acks, queue_file, modem_rebooted, connection_failed,
                   connection_weak, main_pc, ret, obligations, torn_restart, hcf_result, replay,
                   loaded, attempted>>

\* ack_message / ackCommand: handle_critical_failure returned; its result is
\* not looked at, and the function returns.
AckEnd ==
    /\ Running("ack", "end")
    /\ stack' = Pop
    /\ ack_result' = [id |-> Top.id, done |-> TRUE, delivered |-> ret, conn |-> Top.cb]
    /\ UNCHANGED <<pending_acks, queue_file, modem_rebooted, connection_failed,
                   connection_weak, main_pc, ret, obligations, torn_restart, hcf_result, replay,
                   loaded, attempted>>

\* One NetworkClient request made by try_ack (post, max_attempts =
\* retry_critical_attempts) or by retry_connection (get, max_attempts = 1), as
\* request_with_retry ends it:
\*   "ok"        a response came: the flags are cleared (on_connection_restored),
\*               the callback returns True;
\*   "open"      CircuitBreakerOpenException, re-raised at once (on attempt 0, or
\*               on a later attempt, when attempt 0 has marked the connection weak);
\*   "exhausted" every attempt failed: the connection is marked failed and, the
\*               first time, on_connection_lost() runs, which starts its own
\*               handle_critical_failure unless the connection type is wifi.
\* try_ack and retry_connection turn every exception into False.
PostSend ==
    /\ Running("post", "send")
    /\ attempted' = attempted \cup {Top.id}
    /\ \E outcome \in {"ok", "open_first", "open_later", "exhausted"} :
         CASE outcome = "ok" ->
                /\ connection_failed' = FALSE
                /\ connection_weak' = FALSE
                /\ stack' = Pop
                /\ ret' = TRUE
           [] outcome = "open_first" ->
                /\ UNCHANGED <<connection_failed, connection_weak>>
                /\ stack' = Pop
                /\ ret' = FALSE
           [] outcome = "open_later" ->
                /\ connection_weak' = (connection_weak \/ ~connection_failed)
                /\ UNCHANGED connection_failed
                /\ stack' = Pop
                /\ ret' = FALSE
           [] outcome = "exhausted" ->
                IF connection_failed
                THEN /\ UNCHANGED <<connection_failed, connection_weak>>
                     /\ stack' = Pop
                     /\ ret' = FALSE
                ELSE /\ connection_failed' = TRUE
                     /\ connection_weak' = FALSE
                     /\ \E conn \in ConnectionTypes :
                          IF conn = "wifi"
                          THEN /\ stack' = Pop
                               /\ ret' = FALSE
                          ELSE /\ stack' = Push(Goto("lost"),
                                                Frame("hcf", ConnectionLostId, "add", 0, {},
                                                      "retry_connection"))
                               /\ ret' = ret
    /\ UNCHANGED <<pending_acks, queue_file, modem_rebooted, main_pc, obligations,
                   torn_restart, hcf_result, replay, ack_result, loaded>>

\* on_network_connection_lost returned: request_with_retry raises
\* last_exception, and the callback returns False.
PostAfterLost ==
    /\ Running("post", "lost")
    /\ stack' = Pop
    /\ ret' = FALSE
    /\ UNCHANGED <<pending_acks, queue_file, modem_rebooted, connection_failed,
                   connection_weak, main_pc, obligations, torn_restart, hcf_result, replay,
                   ack_result, loaded, attempted>>

----------------------------------------------------------------------------
(* The orchestrator's device state: pure parts                              *)

\* class State
DeviceStates ==
    {"BOOTING", "IDLE", "INCOMING_TRANSMISSION", "MESSAGE_RECEIVED", "ACKNOWLEDGING",
     "OUT_OF_PAPER", "OUT_OF_INK", "OUT_OF_INK_AND_PAPER", "PAPER_JAM",
     "WAITING_FOR_CUPS", "CONNECTION_WEAK", "NO_CONNECTION", "CIRCUIT_BREAKER_OPEN",
     "MODEM_REBOOTING", "PRINTER_UNREACHABLE"}

\* [State.CONNECTION_WEAK, State.NO_CONNECTION, State.CIRCUIT_BREAKER_OPEN]
IssueFamily == {"CONNECTION_WEAK", "NO_CONNECTION", "CIRCUIT_BREAKER_OPEN"}

\* on_network_connection_weak / _lost, on_circuit_breaker_open:
\*   if state not in [...]: state_before_connection_issue = state
SlotOnIssue(st, slot) == IF st \notin IssueFamily THEN st ELSE slot

\* on_network_connection_restored: the state and the slot it leaves
RestoredState(st, slot) ==
    IF st \in IssueFamily THEN (IF slot # "None" THEN slot ELSE "IDLE") ELSE st
RestoredSlot(st, slot) ==
    IF st \in IssueFamily /\ slot # "None" THEN "None" ELSE slot

\* Observation of the writes of state.
NoWrite == [fn |-> "none", locked |-> TRUE]
NoCallbacks == [n |-> 0, held |-> "None", rewritten |-> FALSE]
NoRestore == [n |-> 0, exact |-> TRUE, cleared |-> TRUE]

\* state = s, inside "with state_lock:" (locked) or outside it
SetState(fn, s, locked) ==
    /\ state' = s
    /\ sw' = [fn |-> fn, locked |-> locked]
    /\ UNCHANGED <<state_before_connection_issue, cbk, rest>>

KeepState == UNCHANGED <<state, state_before_connection_issue, sw, cbk, rest>>

\* with state_lock: if state != keep: state = s
SetStateUnless(fn, s, keep) ==
    IF state = keep THEN KeepState ELSE SetState(fn, s, TRUE)

\* on_network_connection_weak, on_network_connection_lost (its state part),
\* on_circuit_breaker_open
IssueCallback(fn, to) ==
    /\ state_before_connection_issue' = SlotOnIssue(state, state_before_connection_issue)
    /\ state' = to
    /\ sw' = [fn |-> fn, locked |-> TRUE]
    /\ cbk' = [n |-> IF cbk.n = 0 THEN 1 ELSE 2,
               held |-> IF cbk.n = 0 THEN state ELSE cbk.held,
               rewritten |-> cbk.rewritten \/ (cbk.n > 0 /\ state \notin IssueFamily)]
    /\ rest' = NoRestore

\* on_network_connection_restored
RestoreCallback ==
    /\ state' = RestoredState(state, state_before_connection_issue)
    /\ state_before_connection_issue' = RestoredSlot(state, state_before_connection_issue)
    /\ sw' = IF state \in IssueFamily
             THEN [fn |-> "on_network_connection_restored", locked |-> TRUE] ELSE sw
    /\ rest' = [n |-> cbk.n, exact |-> state' = cbk.held,
                cleared |-> state_before_connection_issue' = "None"]
    /\ cbk' = NoCallbacks

----------------------------------------------------------------------------
(* Threads and their call stacks                                            *)

\* Messages the server hands out, numbered; the flag thread started for
\* message i is thread <<"flag", i>>.
MaxMessages == 1
\* max_attempts of a request, scaled down (retry_connection uses 1).
MaxAttempts == 2

Messages == 1..MaxMessages
MainThread == <<"main", 0>>
ButtonThread == <<"button", 0>>
FlagThread(i) == <<"flag", i>>
Threads == {MainThread, ButtonThread} \cup {FlagThread(i) : i \in Messages}

\* An activation: the function, its position, and its locals (att, max:
\* request_with_retry's attempt and max_attempts; k: the reboot attempt of
\* handle_critical_failure; cb: the retry callback, or the path of
\* handle_message; saved: state_before_modem_reboot; r: what the last
\* circuit_breaker.call did; msg: the message id; ids: ids_to_send; opened:
\* on_breaker_open ran during this request_with_retry).
DFrame(fn, fpc, att, max, k, cb, saved, r, msg) ==
    [fn |-> fn, pc |-> fpc, att |-> att, max |-> max, k |-> k, cb |-> cb,
     saved |-> saved, r |-> r, msg |-> msg, ids |-> << >>,
     opened |-> FALSE]

Prog(fn, fpc, msg) == DFrame(fn, fpc, 0, 0, 0, "none", "None", "none", msg)
Request(max, msg) == DFrame("req", "call", 0, max, 0, "none", "None", "none", msg)
Recovery(cb, msg) == DFrame("hcf", "loop", 0, 0, 0, cb, "None", "none", msg)

DDepth(t) == Len(calls[t])
DTop(t) == calls[t][DDepth(t)]
At(t, fn, fpc) == DDepth(t) > 0 /\ DTop(t).fn = fn /\ DTop(t).pc = fpc
\* the stack of t with its innermost activation moved to fpc
Moved(t, fpc) == [calls[t] EXCEPT ![DDepth(t)] = [@ EXCEPT !.pc = fpc]]
DGoto(t, fpc) == calls' = [calls EXCEPT ![t] = Moved(t, fpc)]
\* call f, to come back at fpc
DCall(t, fpc, f) == calls' = [calls EXCEPT ![t] = Append(Moved(t, fpc), f)]
\* return v
DReturn(t, v) ==
    /\ calls' = [calls EXCEPT ![t] = SubSeq(@, 1, DDepth(t) - 1)]
    /\ rv' = [rv EXCEPT ![t] = v]

netvars == <<connection_weak, connection_failed, cb_state, failures>>
statevars == <<state, state_before_connection_issue, sw, cbk, rest>>
flagvars == <<flag_raised, button_press_event, ack_complete_event>>
listvars == <<pending_message_ids, collections_file>>
\* what the device specifications leave alone
restvars ==
    <<pending_acks, queue_file, modem_rebooted, main_pc, stack, ret, obligations,
      torn_restart, replay, ack_result, loaded, attempted, hcf_result,
      last_failure_time, now, pc, ev, nfailed, consec, probe_ever_ok, closed_since_open,
      ever_rejected, capped>>

othervars == <<restvars, sidevars>>

\* pending_collections.json: absent, opened for writing and not yet written,
\* or a JSON list
ListFile(kind, ids) == [kind |-> kind, ids |-> ids]

NoFlagRun == [ack |-> "none", wait |-> "none", flushed |-> FALSE, idle |-> FALSE,
              ack_at_flush |-> "none", ack_at_idle |-> "none", pressed |-> FALSE,
              reboots |-> 0]
\* track_print has not been called
NoTracking == [pc |-> "off"]

InitDevice ==
    /\ state = "BOOTING"
    /\ state_before_connection_issue = "None"
    /\ flag_raised = FALSE
    /\ button_press_event = FALSE
    /\ ack_complete_event = [i \in Messages |-> "none"]
    /\ pending_message_ids = << >>
    /\ collections_file = ListFile("absent", << >>)
    /\ calls = [t \in Threads |->
                  IF t = MainThread THEN <<Prog("main", "start", 0)>>
                  ELSE IF t = ButtonThread THEN <<Prog("button", "poll", 0)>>
                  ELSE << >>]
    /\ rv = [t \in Threads |-> "none"]
    /\ handled = 0
    /\ tp = NoTracking
    /\ sw = NoWrite
    /\ cbk = NoCallbacks
    /\ rest = NoRestore
    /\ order = << >>
    /\ fl = [i \in Messages |-> NoFlagRun]


----------------------------------------------------------------------------
(* NetworkClient.request_with_retry, one step per lock section or callback  *)

\* Activations one thread may nest (a request inside a recovery inside a
\* request ...).
MaxDepth == 5

\* call: func(*args, **kwargs) returned: session.request gave a response,
\* whatever its status; raise_for_status() comes after the breaker's call
BreakerSuccessOkOnly(resp) == resp = "ok"
BreakerSuccess(resp) == resp \in {"ok", "http_error"}

\* circuit_breaker.call(session.request, ...), as one step: the gate, the
\* request, and on an exception record_failure with its probe and the on-open
\* callback. Whether the cooldown has elapsed is up to the clock; only
\* "failures >= failure_threshold" is ever read, so the count saturates.
ReqCall(t) ==
    /\ At(t, "req", "call")
    /\ \E elapsed \in BOOLEAN, resp \in {"ok", "http_error", "exc"}, has_internet \in BOOLEAN :
         IF cb_state = "OPEN" /\ ~elapsed
         THEN \* CircuitBreakerOpenException
              /\ calls' = [calls EXCEPT ![t] =
                             [@ EXCEPT ![DDepth(t)] = [@ EXCEPT !.pc = "after", !.r = "rejected"]]]
              /\ UNCHANGED <<cb_state, failures>>
              /\ KeepState
         ELSE LET s1 == IF cb_state = "OPEN" THEN "HALF_OPEN" ELSE cb_state
                  f1 == Sat(failures + 1)
              IN  IF BreakerSuccess(resp)
                  THEN \* a response came back: a success for the breaker
                       /\ IF ResetsOnSuccess(s1)
                          THEN cb_state' = "CLOSED" /\ failures' = 0
                          ELSE cb_state' = s1 /\ failures' = failures
                       /\ KeepState
                       /\ calls' = [calls EXCEPT ![t] =
                             [@ EXCEPT ![DDepth(t)] = [@ EXCEPT !.pc = "after", !.r = resp]]]
                  ELSE \* record_failure
                       /\ calls' = [calls EXCEPT ![t] =
                             [@ EXCEPT ![DDepth(t)] =
                                 [@ EXCEPT !.pc = "after",
                                           !.r = IF resp = "exc" THEN "fail" ELSE resp,
                                           !.opened = @ \/ (ShouldCheck(f1, s1) /\ has_internet)]]]
                       /\ IF ShouldCheck(f1, s1)
                          THEN IF has_internet
                               THEN /\ cb_state' = "OPEN"
                                    /\ failures' = f1
                                    /\ IssueCallback("on_circuit_breaker_open",
                                                     "CIRCUIT_BREAKER_OPEN")
                               ELSE /\ cb_state' = s1
                                    /\ failures' = CappedFailures(f1)
                                    /\ KeepState
                          ELSE /\ cb_state' = s1
                               /\ failures' = f1
                               /\ KeepState
    /\ UNCHANGED <<connection_weak, connection_failed, flagvars, listvars, rv, handled,
                   tp, order, fl>>

\* "except CircuitBreakerOpenException: raise"
ReraisesNever(r) == FALSE
Reraises(r) == r = "rejected"

\* "if self.connection_failed or self.connection_weak:" on a good response
NeedsRestoreFailedOnly(weak, failed) == failed
NeedsRestore(weak, failed) == failed \/ weak

\* "if attempt == 0 and not self.connection_weak and not self.connection_failed:"
MarksWeakAnyAttempt(att, weak, failed) == ~weak /\ ~failed
MarksWeak(att, weak, failed) == att = 0 /\ ~weak /\ ~failed

\* request_with_retry after the call: "except CircuitBreakerOpenException:
\* raise"; a good response: clear the flags and go to on_connection_restored,
\* or return; a failure (an exception, or raise_for_status() on 4xx/5xx):
\* "if attempt == 0 and not weak and not failed": mark weak.
ReqAfter(t) ==
    /\ At(t, "req", "after")
    /\ IF Reraises(DTop(t).r)
       THEN /\ DReturn(t, "fail")
            /\ UNCHANGED <<connection_weak, connection_failed>>
       ELSE IF DTop(t).r = "ok"
       THEN IF NeedsRestore(connection_weak, connection_failed)
            THEN /\ connection_failed' = FALSE
                 /\ connection_weak' = FALSE
                 /\ DGoto(t, "cb_restored")
                 /\ rv' = rv
            ELSE /\ DReturn(t, "ok")
                 /\ UNCHANGED <<connection_weak, connection_failed>>
       ELSE IF MarksWeak(DTop(t).att, connection_weak, connection_failed)
            THEN /\ connection_weak' = TRUE
                 /\ connection_failed' = connection_failed
                 /\ DGoto(t, "cb_weak")
                 /\ rv' = rv
            ELSE /\ DGoto(t, "next")
                 /\ UNCHANGED <<connection_weak, connection_failed, rv>>
    /\ KeepState
    /\ UNCHANGED <<cb_state, failures, flagvars, listvars, handled, tp, order, fl>>

\* self.on_connection_weak()
ReqWeak(t) ==
    /\ At(t, "req", "cb_weak")
    /\ IssueCallback("on_network_connection_weak", "CONNECTION_WEAK")
    /\ DGoto(t, "next")
    /\ UNCHANGED <<netvars, flagvars, listvars, rv, handled, tp, order, fl>>

\* self.on_connection_restored(); return response
ReqRestored(t) ==
    /\ At(t, "req", "cb_restored")
    /\ RestoreCallback
    /\ DReturn(t, "ok")
    /\ UNCHANGED <<netvars, flagvars, listvars, handled, tp, order, fl>>

\* A request_with_retry of another thread (the button's or a flag thread's
\* send_collection_event) gets a good response while this one sleeps, between
\* two attempts (time.sleep(delay)) or after a reboot (time.sleep(wait_time)):
\* the breaker is closed and stays as it is, the flags are cleared and
\* on_connection_restored runs.
ReqElsewhere ==
    /\ \E t \in Threads :
         \/ At(t, "req", "next") /\ DTop(t).att < DTop(t).max - 1
         \/ At(t, "hcf", "retry")
    /\ cb_state = "CLOSED"
    /\ NeedsRestore(connection_weak, connection_failed)
    /\ connection_failed' = FALSE
    /\ connection_weak' = FALSE
    /\ RestoreCallback
    /\ UNCHANGED <<cb_state, failures, flagvars, listvars, handled, tp, order, fl, calls, rv>>

\* "if attempt < max_attempts - 1": sleep and try again; else, all retries
\* exhausted: "if not self.connection_failed": mark failed and go to
\* on_connection_lost; else raise last_exception.
ReqNext(t) ==
    /\ At(t, "req", "next")
    /\ IF DTop(t).att < DTop(t).max - 1
       THEN /\ calls' = [calls EXCEPT ![t] =
                  [@ EXCEPT ![DDepth(t)] = [@ EXCEPT !.pc = "call", !.att = @ + 1]]]
            /\ UNCHANGED <<connection_weak, connection_failed, rv>>
       ELSE IF ~connection_failed
            THEN /\ connection_failed' = TRUE
                 /\ connection_weak' = FALSE
                 /\ DGoto(t, "cb_lost")
                 /\ rv' = rv
            ELSE /\ DReturn(t, "fail")
                 /\ UNCHANGED <<connection_weak, connection_failed>>
    /\ KeepState
    /\ UNCHANGED <<cb_state, failures, flagvars, listvars, handled, tp, order, fl>>

\* on_network_connection_lost: its state_lock section
ReqLost(t) ==
    /\ At(t, "req", "cb_lost")
    /\ IssueCallback("on_network_connection_lost", "NO_CONNECTION")
    /\ DGoto(t, "lost_rec")
    /\ UNCHANGED <<netvars, flagvars, listvars, rv, handled, tp, order, fl>>

\* on_network_connection_lost: "if get_connection_type() == 'wifi': return",
\* else recovery_manager.handle_critical_failure(..., retry_connection); when
\* it comes back request_with_retry raises last_exception.
ReqLostRecovery(t) ==
    /\ At(t, "req", "lost_rec")
    /\ \E conn \in ConnectionTypes :
         IF SkipsRecovery(conn)
         THEN DReturn(t, "fail")
         ELSE /\ DDepth(t) < MaxDepth
              /\ DCall(t, "raise", Recovery("retry_connection", DTop(t).msg))
              /\ rv' = rv
    /\ KeepState
    /\ UNCHANGED <<netvars, flagvars, listvars, handled, tp, order, fl>>

\* raise last_exception
ReqRaise(t) ==
    /\ At(t, "req", "raise")
    /\ DReturn(t, "fail")
    /\ KeepState
    /\ UNCHANGED <<netvars, flagvars, listvars, handled, tp, order, fl>>

----------------------------------------------------------------------------
(* handle_critical_failure as the device sees it: reboot_modem and the retry *)

\* for attempt in range(max_reboots): ...; return False
RecLoop(t) ==
    /\ At(t, "hcf", "loop")
    /\ IF MoreReboots(DTop(t).k)
       THEN DGoto(t, "reboot") /\ rv' = rv
       ELSE DReturn(t, "fail")
    /\ KeepState
    /\ UNCHANGED <<netvars, flagvars, listvars, handled, tp, order, fl>>

\* the acknowledgment of message i has been called and has not returned
AckRunning(i) == i \in Messages /\ fl[i].ack = "sent"

\* reboot_modem: state_before_modem_reboot = state; state = MODEM_REBOOTING.
\* A reboot made while ack_message(i) runs is counted for it.
RebootModem(t) ==
    /\ At(t, "hcf", "reboot")
    /\ calls' = [calls EXCEPT ![t] =
          [@ EXCEPT ![DDepth(t)] = [@ EXCEPT !.pc = "rebooting", !.saved = state]]]
    /\ SetState("reboot_modem", "MODEM_REBOOTING", TRUE)
    /\ fl' = IF AckRunning(DTop(t).msg)
             THEN [fl EXCEPT ![DTop(t).msg].reboots = @ + 1]
             ELSE fl
    /\ UNCHANGED <<netvars, flagvars, listvars, rv, handled, tp, order>>

\* reboot_modem: state = state_before_modem_reboot (on every branch), then
\* time.sleep(wait_time)
RebootModemEnd(t) ==
    /\ At(t, "hcf", "rebooting")
    /\ SetState("reboot_modem", DTop(t).saved, TRUE)
    /\ DGoto(t, "retry")
    /\ UNCHANGED <<netvars, flagvars, listvars, rv, handled, tp, order, fl>>

\* result = retry_callback(): try_ack posts with retry_critical_attempts,
\* retry_connection gets with max_attempts = 1
RecRetry(t) ==
    /\ At(t, "hcf", "retry")
    /\ DDepth(t) < MaxDepth
    /\ DCall(t, "got", Request(IF DTop(t).cb = "retry_connection" THEN 1 ELSE MaxAttempts,
                                DTop(t).msg))
    /\ KeepState
    /\ UNCHANGED <<netvars, flagvars, listvars, rv, handled, tp, order, fl>>

\* if result: ... return True; else the next attempt
RecGot(t) ==
    /\ At(t, "hcf", "got")
    /\ IF rv[t] = "ok"
       THEN DReturn(t, "ok")
       ELSE /\ calls' = [calls EXCEPT ![t] =
                  [@ EXCEPT ![DDepth(t)] = [@ EXCEPT !.pc = "loop", !.k = @ + 1]]]
            /\ rv' = rv
    /\ KeepState
    /\ UNCHANGED <<netvars, flagvars, listvars, handled, tp, order, fl>>


----------------------------------------------------------------------------
(* A request and a recovery reduced to their outcome                        *)

\* request_with_retry: "return response", or "raise last_exception"
ReqOutcome(t) ==
    /\ At(t, "req", "call")
    /\ \E r \in {"ok", "fail"} : DReturn(t, r)
    /\ KeepState
    /\ UNCHANGED <<netvars, flagvars, listvars, handled, tp, order, fl>>

\* handle_critical_failure: "return True", or "return False"
RecOutcome(t) ==
    /\ At(t, "hcf", "loop")
    /\ \E r \in {"ok", "fail"} : DReturn(t, r)
    /\ KeepState
    /\ UNCHANGED <<netvars, flagvars, listvars, handled, tp, order, fl>>

----------------------------------------------------------------------------
(* The polling thread: __main__, check_for_new_messages, handle_message     *)

\* track_print's fault states
FaultStates == {"OUT_OF_INK_AND_PAPER", "OUT_OF_PAPER", "OUT_OF_INK", "PAPER_JAM"}

\* handle_message after track_print returned True: its statements in program
\* order (save_pending_collections is an open and a dump).
PrintedStepsSetFirst ==
    <<"hm_state", "hm_append", "hm_save_open", "hm_save_write", "hm_flag", "hm_set",
      "hm_ack">>
PrintedSteps ==
    <<"hm_state", "hm_append", "hm_save_open", "hm_save_write", "hm_flag", "hm_ack",
      "hm_set">>

\* the statement after p; after the last one handle_message returns
HmNext(p) ==
    LET i == CHOOSE j \in 1..Len(PrintedSteps) : PrintedSteps[j] = p
    IN  IF i < Len(PrintedSteps) THEN PrintedSteps[i + 1] ELSE "cm_end"

\* the log of the steps taken for a printed message
Logged(x) == IF DTop(MainThread).cb = "printed" THEN Append(order, x) ELSE order

\* where ack_message returns to
AfterAck == IF DTop(MainThread).cb = "printed" THEN HmNext("hm_ack") ELSE "cm_end"

\* handle_transmission_failure
TransmissionFailure ==
    SetStateUnless("handle_transmission_failure", "IDLE", "MESSAGE_RECEIVED")

\* handle_message: "return" after handle_transmission_failure(); why is kept
\* in the activation (no_id, no_image, no_job)
Abandon(why) ==
    calls' = [calls EXCEPT ![MainThread] =
        [@ EXCEPT ![DDepth(MainThread)] = [@ EXCEPT !.pc = "cm_end", !.cb = why]]]

\* __main__: update_config() -> network_client.get(config_url, max_attempts=5)
MStart ==
    /\ At(MainThread, "main", "start")
    /\ DCall(MainThread, "cfg_done", Request(MaxAttempts, 0))
    /\ KeepState
    /\ UNCHANGED <<netvars, flagvars, listvars, rv, handled, tp, order, fl>>

\* update_config: "state = State.BOOTING" after a response, "state =
\* State.NO_CONNECTION" in the except branch; neither is inside state_lock.
MCfgDone ==
    /\ At(MainThread, "main", "cfg_done")
    /\ IF rv[MainThread] = "ok"
       THEN SetState("update_config", "BOOTING", FALSE)
       ELSE SetState("update_config", "NO_CONNECTION", FALSE)
    /\ DGoto(MainThread, "cups")
    /\ UNCHANGED <<netvars, flagvars, listvars, rv, handled, tp, order, fl>>

\* init_CUPS: state = WAITING_FOR_CUPS
MInitCups ==
    /\ At(MainThread, "main", "cups")
    /\ SetState("init_CUPS", "WAITING_FOR_CUPS", TRUE)
    /\ DGoto(MainThread, "cups_up")
    /\ UNCHANGED <<netvars, flagvars, listvars, rv, handled, tp, order, fl>>

\* init_CUPS: CUPS connected, state = BOOTING; check_printer_reachable finds
\* the printer
MCupsUp ==
    /\ At(MainThread, "main", "cups_up")
    /\ SetState("init_CUPS", "BOOTING", TRUE)
    /\ DGoto(MainThread, "idle")
    /\ UNCHANGED <<netvars, flagvars, listvars, rv, handled, tp, order, fl>>

\* __main__: with state_lock: state = State.IDLE
MIdle ==
    /\ At(MainThread, "main", "idle")
    /\ SetState("__main__", "IDLE", TRUE)
    /\ DGoto(MainThread, "poll")
    /\ UNCHANGED <<netvars, flagvars, listvars, rv, handled, tp, order, fl>>

\* check_for_new_messages: network_client.get(request_url, max_attempts=5)
MPoll ==
    /\ At(MainThread, "main", "poll")
    /\ DCall(MainThread, "poll_done", Request(MaxAttempts, 0))
    /\ KeepState
    /\ UNCHANGED <<netvars, flagvars, listvars, rv, handled, tp, order, fl>>

\* check_for_new_messages: the except branch (NO_CONNECTION), no message
\* (IDLE unless MESSAGE_RECEIVED), or a message: handle_message starts with
\* state = INCOMING_TRANSMISSION.
MPollDone ==
    /\ At(MainThread, "main", "poll_done")
    /\ IF rv[MainThread] # "ok"
       THEN /\ SetState("check_for_new_messages", "NO_CONNECTION", TRUE)
            /\ DGoto(MainThread, "poll")
            /\ UNCHANGED <<handled, order>>
       ELSE \E message \in BOOLEAN :
              IF message /\ handled < MaxMessages
              THEN /\ handled' = handled + 1
                   /\ order' = << >>
                   /\ SetState("handle_message", "INCOMING_TRANSMISSION", TRUE)
                   /\ calls' = [calls EXCEPT ![MainThread] =
                         [@ EXCEPT ![DDepth(MainThread)] =
                             [@ EXCEPT !.pc = "hm_image", !.msg = handled + 1, !.cb = "none"]]]
              ELSE /\ SetStateUnless("check_for_new_messages", "IDLE", "MESSAGE_RECEIVED")
                   /\ DGoto(MainThread, "poll")
                   /\ UNCHANGED <<handled, order>>
    /\ UNCHANGED <<netvars, flagvars, listvars, rv, tp, fl>>

\* handle_message: message_id is None -> handle_transmission_failure, return;
\* else get_image -> network_client.get_streaming(image_url, max_attempts=3)
MImage ==
    /\ At(MainThread, "main", "hm_image")
    /\ \E valid \in BOOLEAN :
         IF valid
         THEN /\ DCall(MainThread, "img_done", Request(MaxAttempts, DTop(MainThread).msg))
              /\ KeepState
         ELSE /\ TransmissionFailure
              /\ Abandon("no_id")
    /\ UNCHANGED <<netvars, flagvars, listvars, rv, handled, tp, order, fl>>

\* handle_message: image_path is None (the request failed, the response was
\* no image, or save_image failed) or job_id is None (print_image failed) ->
\* handle_transmission_failure, return; else track_print(job_id)
MImageDone ==
    /\ At(MainThread, "main", "img_done")
    /\ \E saved \in BOOLEAN, submitted \in BOOLEAN :
         IF rv[MainThread] = "ok" /\ saved /\ submitted
         THEN /\ DGoto(MainThread, "track")
              /\ KeepState
         ELSE /\ TransmissionFailure
              /\ Abandon(IF rv[MainThread] = "ok" /\ saved THEN "no_job" ELSE "no_image")
    /\ UNCHANGED <<netvars, flagvars, listvars, rv, handled, tp, order, fl>>

\* track_print, a poll that classifies a fault other than the last one
MTrackFault(s) ==
    /\ At(MainThread, "main", "track")
    /\ DTop(MainThread).r # s
    /\ SetState("track_print", s, TRUE)
    /\ calls' = [calls EXCEPT ![MainThread] =
          [@ EXCEPT ![DDepth(MainThread)] = [@ EXCEPT !.r = s]]]
    /\ UNCHANGED <<netvars, flagvars, listvars, rv, handled, tp, order, fl>>

\* track_print, "elif last_error is not None": state = INCOMING_TRANSMISSION
MTrackClear ==
    /\ At(MainThread, "main", "track")
    /\ DTop(MainThread).r # "none"
    /\ SetState("track_print", "INCOMING_TRANSMISSION", TRUE)
    /\ calls' = [calls EXCEPT ![MainThread] =
          [@ EXCEPT ![DDepth(MainThread)] = [@ EXCEPT !.r = "none"]]]
    /\ UNCHANGED <<netvars, flagvars, listvars, rv, handled, tp, order, fl>>

\* track_print returns; "if print_completed:" ... "else:"
MTrackDone ==
    /\ At(MainThread, "main", "track")
    /\ \E print_completed \in BOOLEAN :
         calls' = [calls EXCEPT ![MainThread] =
            [@ EXCEPT ![DDepth(MainThread)] =
                [@ EXCEPT !.r = "none",
                          !.pc = IF print_completed THEN PrintedSteps[1] ELSE "hm_fail",
                          !.cb = IF print_completed THEN "printed" ELSE "failed"]]]
    /\ KeepState
    /\ UNCHANGED <<netvars, flagvars, listvars, rv, handled, tp, order, fl>>

\* with state_lock: state = State.MESSAGE_RECEIVED
MSetReceived ==
    /\ At(MainThread, "main", "hm_state")
    /\ SetState("handle_message", "MESSAGE_RECEIVED", TRUE)
    /\ order' = Logged("state")
    /\ DGoto(MainThread, HmNext("hm_state"))
    /\ UNCHANGED <<netvars, flagvars, listvars, rv, handled, tp, fl>>

\* pending_message_ids.append(message_id)
MAppend ==
    /\ At(MainThread, "main", "hm_append")
    /\ pending_message_ids' = Append(pending_message_ids, DTop(MainThread).msg)
    /\ order' = Logged("append")
    /\ DGoto(MainThread, HmNext("hm_append"))
    /\ KeepState
    /\ UNCHANGED <<netvars, flagvars, collections_file, rv, handled, tp, fl>>

\* save_pending_collections: open(PENDING_COLLECTIONS_FILE, 'w')
MSaveOpen ==
    /\ At(MainThread, "main", "hm_save_open")
    /\ collections_file' = ListFile("torn", << >>)
    /\ DGoto(MainThread, HmNext("hm_save_open"))
    /\ KeepState
    /\ UNCHANGED <<netvars, flagvars, pending_message_ids, rv, handled, tp, order, fl>>

\* save_pending_collections: json.dump(pending_message_ids, f)
MSaveWrite ==
    /\ At(MainThread, "main", "hm_save_write")
    /\ collections_file' = ListFile("json", pending_message_ids)
    /\ order' = Logged("persist")
    /\ DGoto(MainThread, HmNext("hm_save_write"))
    /\ KeepState
    /\ UNCHANGED <<netvars, flagvars, pending_message_ids, rv, handled, tp, fl>>

\* ack_complete_event = threading.Event(); flag_thread.start()
MStartFlag ==
    /\ At(MainThread, "main", "hm_flag")
    /\ LET i == DTop(MainThread).msg
       IN  /\ ack_complete_event' = [ack_complete_event EXCEPT ![i] = "clear"]
           /\ calls' = [calls EXCEPT ![MainThread] = Moved(MainThread, HmNext("hm_flag")),
                                     ![FlagThread(i)] = <<Prog("flag", "check", i)>>]
    /\ order' = Logged("flag_start")
    /\ KeepState
    /\ UNCHANGED <<netvars, flag_raised, button_press_event, listvars, rv, handled, tp, fl>>

\* ack_message: success = try_ack() -> network_client.post(ack_url,
\* max_attempts=retry_critical_attempts)
MAck ==
    /\ At(MainThread, "main", "hm_ack")
    /\ DCall(MainThread, "ack_done", Request(MaxAttempts, DTop(MainThread).msg))
    /\ order' = Logged("ack_call")
    /\ fl' = [fl EXCEPT ![DTop(MainThread).msg].ack = "sent",
                         ![DTop(MainThread).msg].reboots = 0]
    /\ KeepState
    /\ UNCHANGED <<netvars, flagvars, listvars, rv, handled, tp>>

\* ack_message: "if not success:", the wifi early return, else
\* recovery_manager.handle_critical_failure(..., retry_callback=try_ack)
MAckDone ==
    /\ At(MainThread, "main", "ack_done")
    /\ LET i == DTop(MainThread).msg
       IN  IF rv[MainThread] = "ok"
           THEN /\ DGoto(MainThread, AfterAck)
                /\ order' = Logged("ack_return")
                /\ fl' = [fl EXCEPT ![i].ack = "delivered"]
           ELSE \E conn \in ConnectionTypes :
                  IF SkipsRecovery(conn)
                  THEN /\ DGoto(MainThread, AfterAck)
                       /\ order' = Logged("ack_return")
                       /\ fl' = [fl EXCEPT ![i].ack = "failed"]
                  ELSE /\ DCall(MainThread, "ack_ret", Recovery("try_ack", i))
                       /\ UNCHANGED <<order, fl>>
    /\ KeepState
    /\ UNCHANGED <<netvars, flagvars, listvars, rv, handled, tp>>

\* ack_message: handle_critical_failure returned; its result is dropped
MAckRet ==
    /\ At(MainThread, "main", "ack_ret")
    /\ DGoto(MainThread, AfterAck)
    /\ order' = Logged("ack_return")
    /\ fl' = [fl EXCEPT ![DTop(MainThread).msg].ack =
                 IF rv[MainThread] = "ok" THEN "delivered" ELSE "failed"]
    /\ KeepState
    /\ UNCHANGED <<netvars, flagvars, listvars, rv, handled, tp>>

\* ack_complete_event.set()
MSetAckComplete ==
    /\ At(MainThread, "main", "hm_set")
    /\ ack_complete_event' = [ack_complete_event EXCEPT ![DTop(MainThread).msg] = "set"]
    /\ order' = Logged("ack_set")
    /\ DGoto(MainThread, HmNext("hm_set"))
    /\ KeepState
    /\ UNCHANGED <<netvars, flag_raised, button_press_event, listvars, rv, handled, tp, fl>>

\* "Print tracking failed. Not raising flag. Ack'ing message":
\* handle_transmission_failure(), then ack_message(message_id)
MFail ==
    /\ At(MainThread, "main", "hm_fail")
    /\ TransmissionFailure
    /\ DGoto(MainThread, "hm_ack")
    /\ UNCHANGED <<netvars, flagvars, listvars, rv, handled, tp, order, fl>>

\* check_for_new_messages after handle_message: "if state !=
\* State.MESSAGE_RECEIVED: state = State.IDLE"
MEnd ==
    /\ At(MainThread, "main", "cm_end")
    /\ SetStateUnless("check_for_new_messages", "IDLE", "MESSAGE_RECEIVED")
    /\ DGoto(MainThread, "poll")
    /\ UNCHANGED <<netvars, flagvars, listvars, rv, handled, tp, order, fl>>


----------------------------------------------------------------------------
(* The flag thread (raise_flag) and the button (on_button_pressed)          *)

\* the thread ends
DExit(t) == calls' = [calls EXCEPT ![t] = << >>]

\* with flag_lock: "if flag_raised: ... return"
FCheck(i) ==
    /\ At(FlagThread(i), "flag", "check")
    /\ IF flag_raised THEN DExit(FlagThread(i)) ELSE DGoto(FlagThread(i), "raise")
    /\ KeepState
    /\ UNCHANGED <<netvars, flagvars, listvars, rv, handled, tp, order, fl>>

\* with flag_lock: flag_raised = True; button_press_event.clear()
FRaise(i) ==
    /\ At(FlagThread(i), "flag", "raise")
    /\ flag_raised' = TRUE
    /\ button_press_event' = FALSE
    /\ DGoto(FlagThread(i), "servo_up")
    /\ KeepState
    /\ UNCHANGED <<netvars, ack_complete_event, listvars, rv, handled, tp, order, fl>>

\* the servo moves up, or raises an exception
FServoUp(i) ==
    /\ At(FlagThread(i), "flag", "servo_up")
    /\ \E moved \in BOOLEAN : DGoto(FlagThread(i), IF moved THEN "wait" ELSE "except")
    /\ KeepState
    /\ UNCHANGED <<netvars, flagvars, listvars, rv, handled, tp, order, fl>>

\* button_press_event.wait()
FWait(i) ==
    /\ At(FlagThread(i), "flag", "wait")
    /\ button_press_event
    /\ fl' = [fl EXCEPT ![i].pressed = TRUE]
    /\ DGoto(FlagThread(i), "servo_down")
    /\ KeepState
    /\ UNCHANGED <<netvars, flagvars, listvars, rv, handled, tp, order>>

\* the servo moves down, or raises an exception
FServoDown(i) ==
    /\ At(FlagThread(i), "flag", "servo_down")
    /\ \E moved \in BOOLEAN : DGoto(FlagThread(i), IF moved THEN "unflag" ELSE "except")
    /\ KeepState
    /\ UNCHANGED <<netvars, flagvars, listvars, rv, handled, tp, order, fl>>

\* with flag_lock: flag_raised = False
FUnflag(i) ==
    /\ At(FlagThread(i), "flag", "unflag")
    /\ flag_raised' = FALSE
    /\ DGoto(FlagThread(i), "ackcheck")
    /\ KeepState
    /\ UNCHANGED <<netvars, button_press_event, ack_complete_event, listvars, rv, handled,
                   tp, order, fl>>

\* "if ack_complete_event and not ack_complete_event.is_set():" state =
\* ACKNOWLEDGING, then wait
FAckCheck(i) ==
    /\ At(FlagThread(i), "flag", "ackcheck")
    /\ IF ack_complete_event[i] # "set"
       THEN /\ SetState("raise_flag", "ACKNOWLEDGING", TRUE)
            /\ DGoto(FlagThread(i), "ackwait")
            /\ fl' = fl
       ELSE /\ KeepState
            /\ DGoto(FlagThread(i), "flush")
            /\ fl' = [fl EXCEPT ![i].wait = "set"]
    /\ UNCHANGED <<netvars, flagvars, listvars, rv, handled, tp, order>>

\* ack_complete_event.wait(timeout=1500): the event is set, or the time is up
FAckWait(i) ==
    /\ At(FlagThread(i), "flag", "ackwait")
    /\ \E timeout \in BOOLEAN :
         /\ ~timeout => ack_complete_event[i] = "set"
         /\ fl' = [fl EXCEPT ![i].wait = IF timeout THEN "timeout" ELSE "set"]
    /\ DGoto(FlagThread(i), "flush")
    /\ KeepState
    /\ UNCHANGED <<netvars, flagvars, listvars, rv, handled, tp, order>>

\* with pending_collections_lock: ids_to_send = pending_message_ids.copy();
\* pending_message_ids.clear(); save_pending_collections() (its open)
FFlush(i) ==
    /\ At(FlagThread(i), "flag", "flush")
    /\ pending_message_ids' = << >>
    /\ collections_file' = ListFile("torn", << >>)
    /\ calls' = [calls EXCEPT ![FlagThread(i)] =
          [@ EXCEPT ![DDepth(FlagThread(i))] =
              [@ EXCEPT !.pc = "flush_save", !.ids = pending_message_ids]]]
    /\ fl' = [fl EXCEPT ![i].flushed = TRUE, ![i].ack_at_flush = fl[i].ack]
    /\ KeepState
    /\ UNCHANGED <<netvars, flagvars, rv, handled, tp, order>>

\* save_pending_collections: json.dump; then "if ids_to_send:"
\* send_collection_event -> network_client.post(collect_url, max_attempts=3)
FFlushSave(i) ==
    /\ At(FlagThread(i), "flag", "flush_save")
    /\ collections_file' = ListFile("json", pending_message_ids)
    /\ IF DTop(FlagThread(i)).ids # << >>
       THEN DCall(FlagThread(i), "reset", Request(MaxAttempts, i))
       ELSE DGoto(FlagThread(i), "reset")
    /\ KeepState
    /\ UNCHANGED <<netvars, flagvars, pending_message_ids, rv, handled, tp, order, fl>>

\* with state_lock: if state != INCOMING_TRANSMISSION: state = IDLE
FReset(i) ==
    /\ At(FlagThread(i), "flag", "reset")
    /\ SetStateUnless("raise_flag", "IDLE", "INCOMING_TRANSMISSION")
    /\ fl' = IF state # "INCOMING_TRANSMISSION"
             THEN [fl EXCEPT ![i].idle = TRUE, ![i].ack_at_idle = fl[i].ack]
             ELSE fl
    /\ DExit(FlagThread(i))
    /\ UNCHANGED <<netvars, flagvars, listvars, rv, handled, tp, order>>

\* except Exception: with state_lock: if state != INCOMING_TRANSMISSION:
\* state = IDLE
FExcept(i) ==
    /\ At(FlagThread(i), "flag", "except")
    /\ SetStateUnless("raise_flag", "IDLE", "INCOMING_TRANSMISSION")
    /\ fl' = IF state # "INCOMING_TRANSMISSION"
             THEN [fl EXCEPT ![i].idle = TRUE, ![i].ack_at_idle = fl[i].ack]
             ELSE fl
    /\ DGoto(FlagThread(i), "except_unflag")
    /\ UNCHANGED <<netvars, flagvars, listvars, rv, handled, tp, order>>

\* except Exception: with flag_lock: flag_raised = False
FExceptUnflag(i) ==
    /\ At(FlagThread(i), "flag", "except_unflag")
    /\ flag_raised' = FALSE
    /\ DExit(FlagThread(i))
    /\ KeepState
    /\ UNCHANGED <<netvars, button_press_event, ack_complete_event, listvars, rv, handled,
                   tp, order, fl>>

\* on_button_pressed: "if flag_raised: button_press_event.set()", else flush
\* the pending list (nothing to do when it is empty)
BPress ==
    /\ At(ButtonThread, "button", "poll")
    /\ IF flag_raised
       THEN /\ button_press_event' = TRUE
            /\ UNCHANGED <<calls, listvars>>
       ELSE /\ pending_message_ids # << >>
            /\ pending_message_ids' = << >>
            /\ collections_file' = ListFile("torn", << >>)
            /\ calls' = [calls EXCEPT ![ButtonThread] =
                  [@ EXCEPT ![DDepth(ButtonThread)] =
                      [@ EXCEPT !.pc = "save", !.ids = pending_message_ids]]]
            /\ UNCHANGED button_press_event
    /\ KeepState
    /\ UNCHANGED <<netvars, flag_raised, ack_complete_event, rv, handled, tp, order, fl>>

\* on_button_pressed: save_pending_collections (json.dump), then
\* send_collection_event(ids_to_send)
BSave ==
    /\ At(ButtonThread, "button", "save")
    /\ collections_file' = ListFile("json", pending_message_ids)
    /\ DCall(ButtonThread, "sent", Request(MaxAttempts, 0))
    /\ KeepState
    /\ UNCHANGED <<netvars, flagvars, pending_message_ids, rv, handled, tp, order, fl>>

\* on_button_pressed returns (send_collection_event swallows a failure); the
\* handler waits for the next press
BSent ==
    /\ At(ButtonThread, "button", "sent")
    /\ calls' = [calls EXCEPT ![ButtonThread] =
          [@ EXCEPT ![DDepth(ButtonThread)] = [@ EXCEPT !.pc = "poll", !.ids = << >>]]]
    /\ KeepState
    /\ UNCHANGED <<netvars, flagvars, listvars, rv, handled, tp, order, fl>>

----------------------------------------------------------------------------
(* track_print, one step per iteration of its polling loop                  *)

\* Polls of one job.
MaxPolls == 3
\* print_image: "return -1" in no_print mode, else the id CUPS gave the job
SimulatedJob == -1
JobId == 7
\* getJobAttributes(job_id)["job-state"]: the IPP job states, or None
NoJobState == 0
JobStates == 3..9
\* job-printer-state-reasons: the four keywords track_print looks for, and two
\* it does not know
KnownReasons ==
    {"marker-supply-empty-error", "input-tray-missing", "media-empty-error",
     "media-jam-error"}
Reasons == KnownReasons \cup {"cups-waiting-for-job-completed", "toner-low-warning"}

\* "if len(reasons) > 1:"
Inspects(reasons) == Cardinality(reasons) > 1

\* the if / elif chain on the reasons: current_error, "None" when no branch
\* is taken
CurrentError(reasons) ==
    IF "marker-supply-empty-error" \in reasons /\ "input-tray-missing" \in reasons
    THEN "No paper casette/ink cartridge or both"
    ELSE IF "media-empty-error" \in reasons THEN "Out of paper"
    ELSE IF "marker-supply-empty-error" \in reasons
    THEN "Out of ink or ink cartridge missing"
    ELSE IF "input-tray-missing" \in reasons
    THEN "Paper casette missing or incorrectly inserted"
    ELSE IF "media-jam-error" \in reasons THEN "Paper jam"
    ELSE "None"

\* the state each branch writes
FaultState(err) ==
    CASE err = "No paper casette/ink cartridge or both" -> "OUT_OF_INK_AND_PAPER"
      [] err = "Out of paper" -> "OUT_OF_PAPER"
      [] err = "Out of ink or ink cartridge missing" -> "OUT_OF_INK"
      [] err = "Paper casette missing or incorrectly inserted" -> "OUT_OF_PAPER"
      [] err = "Paper jam" -> "PAPER_JAM"

\* "if current_error is not None and last_error != current_error:"
ReportsAlways(current_error, last_error) == current_error # "None"
Reports(current_error, last_error) ==
    current_error # "None" /\ last_error # current_error

\* "if job_found:" for a job that is not in the queue: it is taken as completed
GoneIsSuccessAlways(job_found) == TRUE
GoneIsSuccess(job_found) == job_found

\* What one getJobs / getJobAttributes round can show: an exception, the job
\* missing (before or after the 5 s of grace), or the job in a state, with its
\* reasons when it is processing.
Observations ==
    {[kind |-> "raises", js |-> NoJobState, reasons |-> {}, late |-> FALSE]}
    \cup {[kind |-> "missing", js |-> NoJobState, reasons |-> {}, late |-> l] :
            l \in BOOLEAN}
    \cup {[kind |-> "found", js |-> j, reasons |-> {}, late |-> FALSE] :
            j \in (JobStates \ {5}) \cup {NoJobState}}
    \cup {[kind |-> "found", js |-> 5, reasons |-> R, late |-> FALSE] :
            R \in SUBSET Reasons}

NoObservation == [kind |-> "none", js |-> NoJobState, reasons |-> {}, late |-> FALSE]
NoStreak == [fault |-> "None", polls |-> 0, reports |-> 0]

\* track_print's locals, and what is remembered of its run: obs, the last
\* round; before, last_error when that round began; did, whether the round
\* reported a fault, cleared one, or neither; sent, the calls of send_status;
\* streak, the fault the device has been in since it was last reported, the
\* polls that classified it and the reports made for it; completed, gone, the
\* job was seen completed / went missing after it was seen; returned_at, the
\* polls made when track_print returned.
Tracking(job_found, last_error) ==
    [pc |-> "poll", job_found |-> job_found, last_error |-> last_error, polls |-> 0,
     obs |-> NoObservation, before |-> "None", did |-> "none", sent |-> 0,
     streak |-> NoStreak, completed |-> FALSE, gone |-> FALSE, result |-> "none",
     job_id |-> JobId, returned_at |-> 0]

\* return result
Returned(t, result) == [t EXCEPT !.pc = "done", !.result = result, !.returned_at = t.polls]

\* the run of polls in which the device stays in the fault it reported
StreakAfter(streak, current_error, reported, cleared) ==
    IF cleared THEN NoStreak
    ELSE IF current_error = "None" THEN streak
    ELSE IF current_error = streak.fault
    THEN [streak EXCEPT !.polls = @ + 1, !.reports = @ + (IF reported THEN 1 ELSE 0)]
    ELSE [fault |-> current_error, polls |-> 1, reports |-> IF reported THEN 1 ELSE 0]

\* what the device specifications and the others leave alone here
printothers ==
    <<othervars, netvars, flagvars, listvars, calls, rv, handled, order, fl,
      state_before_connection_issue, cbk, rest>>

\* handle_message: state = INCOMING_TRANSMISSION ... track_print(job_id): the
\* simulated job returns True at once, a missing CUPS connection returns False
TpStart ==
    /\ tp.pc = "off"
    /\ state' = "INCOMING_TRANSMISSION"
    /\ sw' = [fn |-> "handle_message", locked |-> TRUE]
    /\ \E job_id \in {SimulatedJob, JobId}, cups \in BOOLEAN :
         tp' = IF job_id = SimulatedJob
               THEN [Returned(Tracking(FALSE, "None"), "True") EXCEPT !.job_id = job_id]
               ELSE IF ~cups THEN Returned(Tracking(FALSE, "None"), "False")
               ELSE Tracking(FALSE, "None")
    /\ UNCHANGED printothers

\* one iteration of "while True:", the job processing (current_state == 5)
TpProcessing ==
    /\ tp.pc = "poll"
    /\ tp.polls < MaxPolls
    /\ \E o \in Observations :
         /\ o.kind = "found" /\ o.js = 5
         /\ LET current_error == IF Inspects(o.reasons) THEN CurrentError(o.reasons)
                                 ELSE "None"
                reported == Inspects(o.reasons) /\ Reports(current_error, tp.last_error)
                cleared == ~Inspects(o.reasons) /\ tp.last_error # "None"
            IN  /\ IF current_error # "None"
                   THEN state' = FaultState(current_error)
                        /\ sw' = [fn |-> "track_print", locked |-> TRUE]
                   ELSE IF cleared
                   THEN state' = "INCOMING_TRANSMISSION"
                        /\ sw' = [fn |-> "track_print", locked |-> TRUE]
                   ELSE UNCHANGED <<state, sw>>
                /\ tp' = [tp EXCEPT
                             !.job_found = TRUE,
                             !.polls = @ + 1,
                             !.obs = o,
                             !.before = tp.last_error,
                             !.last_error = IF reported THEN current_error
                                            ELSE IF cleared THEN "None" ELSE @,
                             !.did = IF reported THEN "report"
                                     ELSE IF cleared THEN "clear" ELSE "none",
                             !.sent = @ + (IF reported \/ cleared THEN 1 ELSE 0),
                             !.streak = StreakAfter(@, current_error, reported, cleared)]
    /\ UNCHANGED printothers

\* one iteration, the job found in another state: completed -> True, canceled
\* or aborted -> False, no state at all -> False, else sleep and poll again
TpOtherState ==
    /\ tp.pc = "poll"
    /\ tp.polls < MaxPolls
    /\ \E o \in Observations :
         /\ o.kind = "found" /\ o.js # 5
         /\ LET t == [tp EXCEPT !.job_found = TRUE, !.polls = @ + 1, !.obs = o,
                                !.before = tp.last_error, !.did = "none",
                                !.completed = (o.js = 9)]
            IN  tp' = IF o.js = NoJobState THEN Returned(t, "False")
                      ELSE IF o.js = 9 THEN Returned(t, "True")
                      ELSE IF o.js \in {7, 8} THEN Returned(t, "False")
                      ELSE t
    /\ UNCHANGED <<state, sw>>
    /\ UNCHANGED printothers

\* one iteration, the job not in the queue: seen before -> True; never seen
\* and more than 5 s gone -> False; else sleep and poll again
TpMissing ==
    /\ tp.pc = "poll"
    /\ tp.polls < MaxPolls
    /\ \E o \in Observations :
         /\ o.kind = "missing"
         /\ LET t == [tp EXCEPT !.polls = @ + 1, !.obs = o, !.before = tp.last_error,
                                !.did = "none", !.gone = tp.job_found]
            IN  tp' = IF GoneIsSuccess(tp.job_found) THEN Returned(t, "True")
                      ELSE IF o.late THEN Returned(t, "False")
                      ELSE t
    /\ UNCHANGED <<state, sw>>
    /\ UNCHANGED printothers

\* "except Exception as e: ... return False"
TpRaises ==
    /\ tp.pc = "poll"
    /\ tp.polls < MaxPolls
    /\ \E o \in Observations :
         /\ o.kind = "raises"
         /\ tp' = Returned([tp EXCEPT !.polls = @ + 1, !.obs = o,
                                      !.before = tp.last_error, !.did = "none"], "False")
    /\ UNCHANGED <<state, sw>>
    /\ UNCHANGED printothers

----------------------------------------------------------------------------
(* handle_critical_failure: the waits between reboots                       *)

\* initial_wait and max_wait are drawn from 1..MaxWaitParam seconds,
\* backoff_factor from 1..MaxFactor.
MaxWaitParam == 4
MaxFactor == 3

RECURSIVE Pow(_, _)
Pow(b, n) == IF n = 0 THEN 1 ELSE b * Pow(b, n - 1)

Min2(a, b) == IF a <= b THEN a ELSE b

\* handle_critical_failure has not been called
NoWaits == [pc |-> "off"]

\* wait_time = initial_wait
FirstWait(initial_wait, max_wait) == initial_wait

\* wait_time = min(wait_time * backoff_factor, max_wait)
NextWait(wait_time, backoff_factor, max_wait) == Min2(wait_time * backoff_factor, max_wait)

\* handle_critical_failure(..., initial_wait, backoff_factor, max_wait):
\* wait_time = initial_wait
WStart ==
    /\ hw.pc = "off"
    /\ \E iw \in 1..MaxWaitParam, bf \in 1..MaxFactor, mw \in 1..MaxWaitParam :
         hw' = [pc |-> "loop", initial_wait |-> iw, backoff_factor |-> bf, max_wait |-> mw,
                wait_time |-> FirstWait(iw, mw), attempt |-> 0, n |-> 0, slept |-> 0]

\* for attempt in range(max_reboots): escalate_modem_reboot() returns False:
\* "Failed to trigger modem reboot", wait_time as it was
WNotTriggered ==
    /\ hw.pc = "loop"
    /\ MoreReboots(hw.attempt)
    /\ hw' = [hw EXCEPT !.attempt = @ + 1]

\* escalate_modem_reboot() returns True: time.sleep(wait_time)
WSleep ==
    /\ hw.pc = "loop"
    /\ MoreReboots(hw.attempt)
    /\ hw' = [hw EXCEPT !.pc = "slept", !.n = @ + 1, !.slept = hw.wait_time]

\* result = retry_callback(): "return True", or
\* wait_time = min(wait_time * backoff_factor, max_wait) and the next attempt
WRetry ==
    /\ hw.pc = "slept"
    /\ \E result \in BOOLEAN :
         IF result
         THEN hw' = [hw EXCEPT !.pc = "True"]
         ELSE hw' = [hw EXCEPT !.pc = "loop", !.attempt = @ + 1,
                               !.wait_time = NextWait(hw.wait_time, hw.backoff_factor,
                                                      hw.max_wait)]

\* "failed after {max_reboots} modem reboot attempts. Giving up."; return False
WGiveUp ==
    /\ hw.pc = "loop"
    /\ ~MoreReboots(hw.attempt)
    /\ hw' = [hw EXCEPT !.pc = "False"]

----------------------------------------------------------------------------
(* The device state under two threads: the polling thread and a flag thread, *)
(* each with its requests, the connection callbacks and the recovery's       *)
(* reboots. One step is one lock section or one callback.                    *)

StateThreads == {"polling", "flag"}

\* A thread: where it is (pc); the request it is in (caller: "poll", "image",
\* "ack", "send", or "probe" for the recovery's retry callback) and its result
\* (res); the recovery it is in (rec: "lost" started by
\* on_network_connection_lost, "ack" started by ack_message) with its attempt
\* (k) and reboot_modem's state_before_modem_reboot (saved); the request the
\* "lost" recovery runs in (outer); whether handle_message is running (msg);
\* for the flag thread, ack_complete_event.is_set() (acked).
Idle(fpc) ==
    [pc |-> fpc, caller |-> "none", res |-> "none", rec |-> "none", outer |-> "none",
     k |-> 0, saved |-> "None", msg |-> FALSE, acked |-> FALSE]

InitThreads == [t \in StateThreads |-> IF t = "polling" THEN Idle("idle") ELSE Idle("off")]

\* everything the threads below leave alone
stateothers ==
    <<restvars, button_press_event, ack_complete_event, pending_message_ids,
      collections_file, calls, rv, handled, tp, sw, cbk, rest, order, fl, hw, gh, lk>>

LKeepState == UNCHANGED <<state, state_before_connection_issue>>
LKeepNet == UNCHANGED <<connection_weak, connection_failed, cb_state, failures>>
LMove(t, r) == th' = [th EXCEPT ![t] = r]
LGoto(t, fpc) == LMove(t, [th[t] EXCEPT !.pc = fpc])

\* on_network_connection_weak / _lost, on_circuit_breaker_open
LIssue(to) ==
    /\ state_before_connection_issue' = SlotOnIssue(state, state_before_connection_issue)
    /\ state' = to

\* with state_lock: if state != keep: state = s
LSetUnless(s, keep) ==
    /\ state' = IF state = keep THEN state ELSE s
    /\ UNCHANGED state_before_connection_issue

\* network_client.get / post: the first attempt
LStartReq(t, caller) == LMove(t, [th[t] EXCEPT !.pc = "call", !.caller = caller])
\* request_with_retry returns the response (ok) or raises (fail)
LReturned(t, res) == LMove(t, [th[t] EXCEPT !.pc = "returned", !.res = res])
InRequest(t) == th[t].pc \in {"call", "retrying"}

\* circuit_breaker.call lets the call through (CLOSED, or OPEN with the
\* cooldown over) and a good response comes back: a HALF_OPEN trial closes
\* the breaker; "if self.connection_failed or self.connection_weak": clear
\* both and on_connection_restored.
LGood(t) ==
    /\ InRequest(t)
    /\ IF cb_state = "OPEN"
       THEN cb_state' = "CLOSED" /\ failures' = 0
       ELSE UNCHANGED <<cb_state, failures>>
    /\ connection_weak' = FALSE
    /\ connection_failed' = FALSE
    /\ IF NeedsRestore(connection_weak, connection_failed)
       THEN /\ state' = RestoredState(state, state_before_connection_issue)
            /\ state_before_connection_issue' =
                 RestoredSlot(state, state_before_connection_issue)
       ELSE LKeepState
    /\ LReturned(t, "ok")
    /\ UNCHANGED flag_raised

\* circuit_breaker.call refuses: CircuitBreakerOpenException, re-raised
LRefused(t) ==
    /\ InRequest(t)
    /\ cb_state = "OPEN"
    /\ LReturned(t, "fail")
    /\ LKeepState
    /\ LKeepNet
    /\ UNCHANGED flag_raised

\* the call fails: record_failure, with the connectivity check and
\* on_breaker_open. The recovery's retry request is taken to fail only while
\* connection_failed is set: it then marks nothing, calls back nothing and
\* raises.
LFails(t) ==
    /\ InRequest(t)
    /\ th[t].caller = "probe" => connection_failed
    /\ \E elapsed \in BOOLEAN, has_internet \in BOOLEAN :
         /\ cb_state = "OPEN" => elapsed
         /\ LET s1 == IF cb_state = "OPEN" THEN "HALF_OPEN" ELSE cb_state
                f1 == Sat(failures + 1)
            IN  IF ShouldCheck(f1, s1)
                THEN IF has_internet
                     THEN /\ cb_state' = "OPEN"
                          /\ failures' = f1
                          /\ LIssue("CIRCUIT_BREAKER_OPEN")
                     ELSE /\ cb_state' = s1
                          /\ failures' = CappedFailures(f1)
                          /\ LKeepState
                ELSE /\ cb_state' = s1
                     /\ failures' = f1
                     /\ LKeepState
    /\ IF th[t].caller = "probe"
       THEN LReturned(t, "fail")
       ELSE LGoto(t, IF th[t].pc = "call" THEN "failed" ELSE "exhausted")
    /\ UNCHANGED <<connection_weak, connection_failed, flag_raised>>

\* "if attempt == 0 and not weak and not failed": mark weak,
\* on_connection_weak; then the next attempt
LFirstFailure(t) ==
    /\ th[t].pc = "failed"
    /\ IF MarksWeak(0, connection_weak, connection_failed)
       THEN /\ connection_weak' = TRUE
            /\ LIssue("CONNECTION_WEAK")
       ELSE /\ UNCHANGED connection_weak
            /\ LKeepState
    /\ LGoto(t, "retrying")
    /\ UNCHANGED <<connection_failed, cb_state, failures, flag_raised>>

\* all retries exhausted: "if not self.connection_failed": mark failed and
\* on_connection_lost, which returns on wifi and else starts
\* handle_critical_failure(retry_connection); then raise last_exception
LExhausted(t) ==
    /\ th[t].pc = "exhausted"
    /\ IF ~connection_failed
       THEN /\ connection_failed' = TRUE
            /\ connection_weak' = FALSE
            /\ LIssue("NO_CONNECTION")
            /\ \E conn \in ConnectionTypes :
                 IF SkipsRecovery(conn)
                 THEN LReturned(t, "fail")
                 ELSE LMove(t, [th[t] EXCEPT !.pc = "hcf", !.rec = "lost", !.k = 0,
                                             !.outer = th[t].caller])
       ELSE /\ LReturned(t, "fail")
            /\ LKeepState
            /\ UNCHANGED <<connection_weak, connection_failed>>
    /\ UNCHANGED <<cb_state, failures, flag_raised>>

\* handle_critical_failure: "for attempt in range(max_reboots)" is over:
\* return False, to on_network_connection_lost (the request then raises) or
\* to ack_message
LGiveUp(t) ==
    /\ th[t].pc = "hcf"
    /\ ~MoreReboots(th[t].k)
    /\ LMove(t, IF th[t].rec = "lost"
                THEN [th[t] EXCEPT !.pc = "returned", !.res = "fail", !.rec = "none",
                                   !.caller = th[t].outer, !.outer = "none", !.k = 0]
                ELSE [th[t] EXCEPT !.pc = "ack_done", !.rec = "none", !.k = 0])
    /\ LKeepState
    /\ LKeepNet
    /\ UNCHANGED flag_raised

\* reboot_modem: with state_lock: state_before_modem_reboot = state;
\* state = MODEM_REBOOTING
LReboot(t) ==
    /\ th[t].pc = "hcf"
    /\ MoreReboots(th[t].k)
    /\ LMove(t, [th[t] EXCEPT !.pc = "rebooting", !.saved = state])
    /\ state' = "MODEM_REBOOTING"
    /\ UNCHANGED state_before_connection_issue
    /\ LKeepNet
    /\ UNCHANGED flag_raised

\* reboot_modem: with state_lock: state = state_before_modem_reboot (on every
\* branch); escalate_modem_reboot returns True; time.sleep(wait_time);
\* retry_callback() makes its request
LRebootEnd(t) ==
    /\ th[t].pc = "rebooting"
    /\ state' = th[t].saved
    /\ UNCHANGED state_before_connection_issue
    /\ LMove(t, [th[t] EXCEPT !.pc = "call", !.caller = "probe", !.saved = "None"])
    /\ LKeepNet
    /\ UNCHANGED flag_raised

\* "if result: ... return True", or the next attempt
LProbed(t) ==
    /\ th[t].pc = "returned"
    /\ th[t].caller = "probe"
    /\ LMove(t, IF th[t].res = "ok"
                THEN IF th[t].rec = "lost"
                     THEN [th[t] EXCEPT !.pc = "returned", !.res = "fail", !.rec = "none",
                                        !.caller = th[t].outer, !.outer = "none", !.k = 0]
                     ELSE [th[t] EXCEPT !.pc = "ack_done", !.rec = "none", !.k = 0,
                                        !.caller = "none", !.res = "none"]
                ELSE [th[t] EXCEPT !.pc = "hcf", !.k = @ + 1, !.caller = "none",
                                   !.res = "none"])
    /\ LKeepState
    /\ LKeepNet
    /\ UNCHANGED flag_raised

\* check_for_new_messages: network_client.get(request_url, max_attempts=5)
PPoll ==
    /\ th["polling"].pc = "idle"
    /\ LStartReq("polling", "poll")
    /\ LKeepState
    /\ LKeepNet
    /\ UNCHANGED flag_raised

\* check_for_new_messages: a message (handle_message: state =
\* INCOMING_TRANSMISSION, then get_image), no message ("if state !=
\* MESSAGE_RECEIVED: state = IDLE"), or the except branch (state =
\* NO_CONNECTION). A message is taken only when no flag thread is running.
PPolled ==
    /\ th["polling"].pc = "returned"
    /\ th["polling"].caller = "poll"
    /\ IF th["polling"].res = "ok"
       THEN \E found \in BOOLEAN :
              IF found /\ th["flag"].pc = "off"
              THEN /\ state' = "INCOMING_TRANSMISSION"
                   /\ UNCHANGED state_before_connection_issue
                   /\ LMove("polling", [Idle("call") EXCEPT !.caller = "image",
                                                             !.msg = TRUE])
              ELSE /\ LSetUnless("IDLE", "MESSAGE_RECEIVED")
                   /\ LMove("polling", Idle("idle"))
       ELSE /\ state' = "NO_CONNECTION"
            /\ UNCHANGED state_before_connection_issue
            /\ LMove("polling", Idle("idle"))
    /\ LKeepNet
    /\ UNCHANGED flag_raised

\* handle_message after get_image: no image: handle_transmission_failure and
\* return; else the print succeeds: state = MESSAGE_RECEIVED and the flag
\* thread is started
PImage ==
    /\ th["polling"].pc = "returned"
    /\ th["polling"].caller = "image"
    /\ IF th["polling"].res = "ok"
       THEN /\ state' = "MESSAGE_RECEIVED"
            /\ UNCHANGED state_before_connection_issue
            /\ th' = [th EXCEPT !["polling"] = [Idle("acking") EXCEPT !.msg = TRUE],
                                 !["flag"] = Idle("check")]
       ELSE /\ LSetUnless("IDLE", "MESSAGE_RECEIVED")
            /\ LMove("polling", Idle("after"))
    /\ LKeepNet
    /\ UNCHANGED flag_raised

\* ack_message: try_ack -> network_client.post(ack_url)
PAck ==
    /\ th["polling"].pc = "acking"
    /\ LStartReq("polling", "ack")
    /\ LKeepState
    /\ LKeepNet
    /\ UNCHANGED flag_raised

\* ack_message: "if not success:", the wifi return, else
\* handle_critical_failure(..., retry_callback=try_ack)
PAcked ==
    /\ th["polling"].pc = "returned"
    /\ th["polling"].caller = "ack"
    /\ IF th["polling"].res = "ok"
       THEN LGoto("polling", "ack_done")
       ELSE \E conn \in ConnectionTypes :
              IF SkipsRecovery(conn)
              THEN LGoto("polling", "ack_done")
              ELSE LMove("polling", [th["polling"] EXCEPT !.pc = "hcf", !.rec = "ack",
                                                          !.k = 0])
    /\ LKeepState
    /\ LKeepNet
    /\ UNCHANGED flag_raised

\* handle_message: ack_complete_event.set(); return
PAckDone ==
    /\ th["polling"].pc = "ack_done"
    /\ th' = [th EXCEPT !["polling"] = Idle("after"),
                         !["flag"].acked = (th["flag"].pc # "off")]
    /\ LKeepState
    /\ LKeepNet
    /\ UNCHANGED flag_raised

\* check_for_new_messages after handle_message: "if state !=
\* MESSAGE_RECEIVED: state = IDLE"
PAfter ==
    /\ th["polling"].pc = "after"
    /\ LSetUnless("IDLE", "MESSAGE_RECEIVED")
    /\ LMove("polling", Idle("idle"))
    /\ LKeepNet
    /\ UNCHANGED flag_raised

\* raise_flag: "if flag_raised: return"; flag_raised = True
LFlagUp ==
    /\ th["flag"].pc = "check"
    /\ IF flag_raised
       THEN LMove("flag", Idle("off")) /\ UNCHANGED flag_raised
       ELSE LGoto("flag", "wait") /\ flag_raised' = TRUE
    /\ LKeepState
    /\ LKeepNet

\* raise_flag: the button is pressed; flag_raised = False
LFlagDown ==
    /\ th["flag"].pc = "wait"
    /\ flag_raised' = FALSE
    /\ LGoto("flag", "ackcheck")
    /\ LKeepState
    /\ LKeepNet

\* raise_flag: "if not ack_complete_event.is_set()": state = ACKNOWLEDGING
LAckCheck ==
    /\ th["flag"].pc = "ackcheck"
    /\ IF th["flag"].acked
       THEN LGoto("flag", "flush") /\ LKeepState
       ELSE /\ LGoto("flag", "ackwait")
            /\ state' = "ACKNOWLEDGING"
            /\ UNCHANGED state_before_connection_issue
    /\ LKeepNet
    /\ UNCHANGED flag_raised

\* raise_flag: ack_complete_event.wait(timeout=1500) returns: set, or time up
LAckWait ==
    /\ th["flag"].pc = "ackwait"
    /\ \E timeout \in BOOLEAN : ~timeout => th["flag"].acked
    /\ LGoto("flag", "flush")
    /\ LKeepState
    /\ LKeepNet
    /\ UNCHANGED flag_raised

\* raise_flag: send_collection_event(ids_to_send): returns at once when
\* collection_notifications is off, else network_client.post(collection_url)
LSend ==
    /\ th["flag"].pc = "flush"
    /\ \E collection_notifications \in BOOLEAN :
         IF collection_notifications
         THEN LStartReq("flag", "send")
         ELSE LGoto("flag", "reset")
    /\ LKeepState
    /\ LKeepNet
    /\ UNCHANGED flag_raised

\* send_collection_event returns, whatever the request did
LSent ==
    /\ th["flag"].pc = "returned"
    /\ th["flag"].caller = "send"
    /\ LGoto("flag", "reset")
    /\ LKeepState
    /\ LKeepNet
    /\ UNCHANGED flag_raised

\* raise_flag: "if state != INCOMING_TRANSMISSION: state = IDLE"; the thread ends
LReset ==
    /\ th["flag"].pc = "reset"
    /\ LSetUnless("IDLE", "INCOMING_TRANSMISSION")
    /\ LMove("flag", Idle("off"))
    /\ LKeepNet
    /\ UNCHANGED flag_raised

----------------------------------------------------------------------------
(* getHeaders: the modem read behind a timeout                              *)

\* timeout_seconds = 2
timeout_seconds == 2

\* what get_signal_data returns: the rsrp of the reading stands for the dict
SignalData == {-116, -80}

\* the printer states that getInitialHeaders and getHeaders report as they are
ReportedStates ==
    {"OUT_OF_INK", "OUT_OF_PAPER", "OUT_OF_INK_AND_PAPER", "PAPER_JAM", "BOOTING",
     "WAITING_FOR_CUPS", "ACKNOWLEDGING", "PRINTER_UNREACHABLE"}

\* X-Printer-Status
StatusOf(s) == IF s \in ReportedStates THEN s ELSE "Normal"

\* the dict getInitialHeaders returns
InitialHeaders(s) == [status |-> StatusOf(s), modem |-> FALSE, rsrp |-> 0]

\* the dict getHeaders builds from a reading
FullHeaders(s, data) == [status |-> StatusOf(s), modem |-> TRUE, rsrp |-> data]

NoHeadersCall ==
    [pc |-> "off", worker |-> "none", waited |-> 0, got |-> "none", data |-> 0,
     headers |-> InitialHeaders("BOOTING")]

\* the executor's worker has been started and has not finished _read_modem_data
WorkerRunning == gh.worker = "running"

\* ThreadPoolExecutor.__exit__ is shutdown(wait=True): it joins the worker
ShutdownJoins(worker) == worker # "running"

\* getHeaders is called; on wifi it returns the basic headers at once,
\* otherwise it submits _read_modem_data to a one-worker executor
GHCall ==
    /\ gh.pc \in {"off", "returned"}
    /\ \E connection_type \in ConnectionTypes :
         IF connection_type = "wifi"
         THEN gh' = [NoHeadersCall EXCEPT !.pc = "returned",
                                          !.headers = InitialHeaders(state)]
         ELSE gh' = [NoHeadersCall EXCEPT !.pc = "result", !.worker = "running"]
    /\ UNCHANGED state

\* the worker: get_signal_data returns a reading, or the reader raises
GHWorkerEnds ==
    /\ WorkerRunning
    /\ \/ \E d \in SignalData : gh' = [gh EXCEPT !.worker = "done", !.data = d]
       \/ gh' = [gh EXCEPT !.worker = "raised"]
    /\ UNCHANGED state

\* a second passes while the caller is inside future.result(timeout=2)
GHTick ==
    /\ gh.pc = "result"
    /\ WorkerRunning
    /\ gh.waited < timeout_seconds
    /\ gh' = [gh EXCEPT !.waited = @ + 1]
    /\ UNCHANGED state

\* future.result(timeout=timeout_seconds) returns the reading, or raises the
\* reader's exception, or raises FuturesTimeoutError; both are caught
GHResult ==
    /\ gh.pc = "result"
    /\ \/ /\ gh.worker = "done"
          /\ gh' = [gh EXCEPT !.pc = "exit", !.got = "data"]
       \/ /\ gh.worker = "raised"
          /\ gh' = [gh EXCEPT !.pc = "exit", !.got = "error"]
       \/ /\ WorkerRunning
          /\ gh.waited = timeout_seconds
          /\ gh' = [gh EXCEPT !.pc = "exit", !.got = "timeout"]
    /\ UNCHANGED state

\* the with block is left: the executor is shut down, waiting for its worker
GHExit ==
    /\ gh.pc = "exit"
    /\ ShutdownJoins(gh.worker)
    /\ gh' = [gh EXCEPT !.pc = "build"]
    /\ UNCHANGED state

\* data is None: getInitialHeaders(); otherwise the full headers
GHReturn ==
    /\ gh.pc = "build"
    /\ gh' = [gh EXCEPT !.pc = "returned",
                        !.headers = IF gh.got = "data"
                                    THEN FullHeaders(state, gh.data)
                                    ELSE InitialHeaders(state)]
    /\ UNCHANGED state

\* another thread writes the device state
GHStateWritten ==
    /\ \E s \in {"IDLE", "ACKNOWLEDGING", "NO_CONNECTION", "OUT_OF_PAPER"} :
         /\ s # state
         /\ state' = s
    /\ UNCHANGED gh

\* the steps of the thread that called getHeaders
GHCaller == GHCall \/ GHResult \/ GHExit \/ GHReturn

headersothers ==
    <<cbvars, rmvars, state_before_connection_issue, flag_raised, button_press_event,
      ack_complete_event, pending_message_ids, collections_file, calls, rv, handled,
      tp, sw, cbk, rest, order, fl, hw, th, lk>>

----------------------------------------------------------------------------
(* The four locks and the threads that take them                            *)

\* self.lock of the breaker, state_lock, flag_lock, pending_ids_lock
LockNames == {"breaker_lock", "state_lock", "flag_lock", "pending_ids_lock"}

\* threads started by handle_message with target=raise_flag
FlagThreads == {"flag1", "flag2"}

\* the polling thread, the flag threads, the button thread, the LED thread
LockThreads == {"polling", "button", "led"} \cup FlagThreads

\* threads inside request_with_retry at the same time
MaxInFlight == 2

\* the lock on_circuit_breaker_open takes while record_failure holds self.lock
CallbackLockBreaker == "breaker_lock"
CallbackLock == "state_lock"

\* every "with <lock>:" of the threads: <<where the thread stands before it,
\* the lock, where it stands inside>>
Sections ==
    {<<"incoming", "state_lock", "in_incoming">>,
     <<"append", "pending_ids_lock", "in_append">>,
     <<"after", "state_lock", "in_after">>,
     <<"check", "flag_lock", "in_check">>,
     <<"set", "flag_lock", "in_set">>,
     <<"unset", "flag_lock", "in_unset">>,
     <<"ackstate", "state_lock", "in_ackstate">>,
     <<"flush", "pending_ids_lock", "in_flush">>,
     <<"reset", "state_lock", "in_reset">>,
     <<"exc", "state_lock", "in_exc">>,
     <<"exc_unflag", "flag_lock", "in_exc_unflag">>,
     <<"pressed", "flag_lock", "in_pressed">>,
     <<"bflush", "pending_ids_lock", "in_bflush">>,
     <<"led", "state_lock", "in_led">>,
     <<"gate", "breaker_lock", "in_gate">>,
     <<"ok", "breaker_lock", "in_ok">>,
     <<"f1", "breaker_lock", "in_f1">>,
     <<"f2", "breaker_lock", "in_f2">>,
     <<"open_cb", CallbackLock, "in_open_cb">>,
     <<"cbk", "state_lock", "in_cbk">>}

\* where a thread stands while it is inside request_with_retry
ReqPcs ==
    {"gate", "in_gate", "func", "ok", "in_ok", "f1", "in_f1", "f2", "in_f2",
     "open_cb", "in_open_cb", "cbk", "in_cbk"}

InitLocks ==
    [owner |-> [l \in LockNames |-> "free"],
     at |-> [t \in LockThreads |->
               CASE t = "polling" -> "poll"
                 [] t = "button" -> "pressed"
                 [] t = "led" -> "led"
                 [] OTHER -> "off"],
     back |-> [t \in LockThreads |-> "none"],
     pending |-> FALSE,
     pressed |-> FALSE]

KAt(t, p) == lk.at[t] = p
KFree(l) == lk.owner[l] = "free"
KHeld(t) == {l \in LockNames : lk.owner[l] = t}
KInFlight == {t \in LockThreads : lk.at[t] \in ReqPcs}

\* the lock the next statement of t acquires, "none" if it acquires none
Wanted(t) ==
    IF \E s \in Sections : s[1] = lk.at[t]
    THEN (CHOOSE s \in Sections : s[1] = lk.at[t])[2]
    ELSE "none"

\* the thread that holds the lock t is waiting for, "none" if t is not waiting
WaitsOn(t) ==
    IF Wanted(t) # "none" /\ ~KFree(Wanted(t)) THEN lk.owner[Wanted(t)] ELSE "none"

\* the record after t has left the section of lock l and gone to p
KLeave(r, t, l, p) == [r EXCEPT !.owner[l] = "free", !.at[t] = p]

KKeepFlag == UNCHANGED <<flag_raised, button_press_event>>
KKeepBreaker == UNCHANGED <<cb_state, failures>>

\* network_client.get / post: the thread enters request_with_retry; with
\* whole, the request is taken as one step that ends at back
KRoom(whole) == whole \/ Cardinality(KInFlight) < MaxInFlight
KRequest(r, t, back, whole) ==
    IF whole THEN [r EXCEPT !.at[t] = back]
    ELSE [r EXCEPT !.at[t] = "gate", !.back[t] = back]

\* threading.Lock.acquire at the head of a with statement
KAcquire ==
    /\ \E t \in LockThreads : \E s \in Sections :
         /\ KAt(t, s[1])
         /\ KFree(s[2])
         /\ lk' = [lk EXCEPT !.owner[s[2]] = t, !.at[t] = s[3]]
    /\ KKeepFlag
    /\ KKeepBreaker

\* ---- the polling thread

\* check_for_new_messages: the request for new messages
KPoll(whole) ==
    /\ KAt("polling", "poll")
    /\ KRoom(whole)
    /\ lk' = KRequest(lk, "polling", "polled", whole)
    /\ KKeepFlag
    /\ KKeepBreaker

\* the request has returned or raised: a message to handle (a new flag thread
\* will be needed), or none
KPolled(fs) ==
    /\ KAt("polling", "polled")
    /\ \/ /\ \E f \in fs : KAt(f, "off")
          /\ lk' = [lk EXCEPT !.at["polling"] = "incoming"]
       \/ lk' = [lk EXCEPT !.at["polling"] = "after"]
    /\ KKeepFlag
    /\ KKeepBreaker

\* handle_message: state = INCOMING_TRANSMISSION ... state = MESSAGE_RECEIVED;
\* a failed image or print goes to the end of check_for_new_messages
KIncoming ==
    /\ KAt("polling", "in_incoming")
    /\ \E printed \in BOOLEAN :
         lk' = KLeave(lk, "polling", "state_lock", IF printed THEN "append" ELSE "after")
    /\ KKeepFlag
    /\ KKeepBreaker

\* handle_message: pending_message_ids.append, then flag_thread.start(),
\* then ack_message
KAppend(fs, whole) ==
    /\ KAt("polling", "in_append")
    /\ KRoom(whole)
    /\ \E f \in fs :
         /\ KAt(f, "off")
         /\ lk' = [KRequest(KLeave(lk, "polling", "pending_ids_lock", "append"),
                            "polling", "after", whole)
                     EXCEPT !.pending = TRUE, !.at[f] = "check"]
    /\ KKeepFlag
    /\ KKeepBreaker

\* check_for_new_messages: the state_lock section that ends it
KAfter ==
    /\ KAt("polling", "in_after")
    /\ lk' = KLeave(lk, "polling", "state_lock", "poll")
    /\ KKeepFlag
    /\ KKeepBreaker

\* ---- a flag thread: raise_flag

\* with flag_lock: if flag_raised: return
KCheck ==
    /\ \E f \in FlagThreads :
         /\ KAt(f, "in_check")
         /\ lk' = KLeave(lk, f, "flag_lock", IF flag_raised THEN "off" ELSE "set")
    /\ KKeepFlag
    /\ KKeepBreaker

\* with flag_lock: flag_raised = True; button_press_event.clear()
KSet ==
    /\ \E f \in FlagThreads :
         /\ KAt(f, "in_set")
         /\ lk' = KLeave(lk, f, "flag_lock", "wait")
    /\ flag_raised' = TRUE
    /\ button_press_event' = FALSE
    /\ KKeepBreaker

\* button_press_event.wait() returns; the servo is lowered
KWait ==
    /\ \E f \in FlagThreads :
         /\ KAt(f, "wait")
         /\ button_press_event
         /\ lk' = [lk EXCEPT !.at[f] = "unset"]
    /\ KKeepFlag
    /\ KKeepBreaker

\* set_servo_angle raises: the except clause of raise_flag
KServoRaises ==
    /\ \E f \in FlagThreads :
         /\ KAt(f, "wait")
         /\ lk' = [lk EXCEPT !.at[f] = "exc"]
    /\ KKeepFlag
    /\ KKeepBreaker

\* with flag_lock: flag_raised = False
KUnset ==
    /\ \E f \in FlagThreads :
         /\ KAt(f, "in_unset")
         /\ \E ack_done \in BOOLEAN :
              lk' = [KLeave(lk, f, "flag_lock", IF ack_done THEN "flush" ELSE "ackstate")
                       EXCEPT !.pressed = FALSE]
    /\ flag_raised' = FALSE
    /\ UNCHANGED button_press_event
    /\ KKeepBreaker

\* with state_lock: state = ACKNOWLEDGING; ack_complete_event.wait(timeout=1500)
KAckState ==
    /\ \E f \in FlagThreads :
         /\ KAt(f, "in_ackstate")
         /\ lk' = KLeave(lk, f, "state_lock", "flush")
    /\ KKeepFlag
    /\ KKeepBreaker

\* with pending_ids_lock: take and clear the ids; send_collection_event if any
KFlush(whole) ==
    /\ \E f \in FlagThreads :
         /\ KAt(f, "in_flush")
         /\ IF lk.pending
            THEN /\ KRoom(whole)
                 /\ lk' = [KRequest(KLeave(lk, f, "pending_ids_lock", "flush"),
                                    f, "reset", whole)
                             EXCEPT !.pending = FALSE]
            ELSE lk' = KLeave(lk, f, "pending_ids_lock", "reset")
    /\ KKeepFlag
    /\ KKeepBreaker

\* with state_lock: if state != INCOMING_TRANSMISSION: state = IDLE
KReset ==
    /\ \E f \in FlagThreads :
         /\ KAt(f, "in_reset")
         /\ lk' = KLeave(lk, f, "state_lock", "off")
    /\ KKeepFlag
    /\ KKeepBreaker

\* except: with state_lock: ...
KExcState ==
    /\ \E f \in FlagThreads :
         /\ KAt(f, "in_exc")
         /\ lk' = KLeave(lk, f, "state_lock", "exc_unflag")
    /\ KKeepFlag
    /\ KKeepBreaker

\* except: with flag_lock: flag_raised = False
KExcUnflag ==
    /\ \E f \in FlagThreads :
         /\ KAt(f, "in_exc_unflag")
         /\ lk' = [KLeave(lk, f, "flag_lock", "off") EXCEPT !.pressed = FALSE]
    /\ flag_raised' = FALSE
    /\ UNCHANGED button_press_event
    /\ KKeepBreaker

\* ---- the button thread: on_button_pressed

\* with flag_lock: if flag_raised: button_press_event.set(); return
KPressed ==
    /\ KAt("button", "in_pressed")
    /\ IF flag_raised
       THEN /\ lk' = [KLeave(lk, "button", "flag_lock", "pressed") EXCEPT !.pressed = TRUE]
            /\ button_press_event' = TRUE
       ELSE /\ lk' = KLeave(lk, "button", "flag_lock", "bflush")
            /\ UNCHANGED button_press_event
    /\ UNCHANGED flag_raised
    /\ KKeepBreaker

\* with pending_ids_lock: nothing pending: return; otherwise take the ids and
\* send_collection_event
KButtonFlush(whole) ==
    /\ KAt("button", "in_bflush")
    /\ IF lk.pending
       THEN /\ KRoom(whole)
            /\ lk' = [KRequest(KLeave(lk, "button", "pending_ids_lock", "bflush"),
                               "button", "pressed", whole)
                        EXCEPT !.pending = FALSE]
       ELSE lk' = KLeave(lk, "button", "pending_ids_lock", "pressed")
    /\ KKeepFlag
    /\ KKeepBreaker

\* ---- the LED thread: update_led_status

\* with state_lock: current_state = state
KLed ==
    /\ KAt("led", "in_led")
    /\ lk' = KLeave(lk, "led", "state_lock", "led")
    /\ KKeepFlag
    /\ KKeepBreaker

\* ---- request_with_retry through CircuitBreaker.call

\* call: with self.lock: OPEN and the cooldown over: HALF_OPEN; OPEN and not
\* over: raise, and request_with_retry re-raises
KGate ==
    /\ \E t \in LockThreads :
         /\ KAt(t, "in_gate")
         /\ IF cb_state = "OPEN"
            THEN \E elapsed \in BOOLEAN :
                   IF elapsed
                   THEN /\ cb_state' = "HALF_OPEN"
                        /\ lk' = KLeave(lk, t, "breaker_lock", "func")
                   ELSE /\ cb_state' = cb_state
                        /\ lk' = KLeave(lk, t, "breaker_lock", lk.back[t])
            ELSE /\ cb_state' = cb_state
                 /\ lk' = KLeave(lk, t, "breaker_lock", "func")
    /\ UNCHANGED failures
    /\ KKeepFlag

\* func(*args, **kwargs) returns or raises
KFunc ==
    /\ \E t \in LockThreads :
         /\ KAt(t, "func")
         /\ \E good \in BOOLEAN : lk' = [lk EXCEPT !.at[t] = IF good THEN "ok" ELSE "f1"]
    /\ KKeepFlag
    /\ KKeepBreaker

\* call: with self.lock: if HALF_OPEN: _reset_unlocked(); then the restored
\* callback, or none, and the return
KSuccess ==
    /\ \E t \in LockThreads :
         /\ KAt(t, "in_ok")
         /\ \E to \in {"cbk", lk.back[t]} : lk' = KLeave(lk, t, "breaker_lock", to)
    /\ cb_state' = IF ResetsOnSuccess(cb_state) THEN "CLOSED" ELSE cb_state
    /\ failures' = IF ResetsOnSuccess(cb_state) THEN 0 ELSE failures
    /\ KKeepFlag

\* record_failure: with self.lock: failures += 1; then the connectivity check,
\* or a connection callback, the next attempt or the return
KCount ==
    /\ \E t \in LockThreads :
         /\ KAt(t, "in_f1")
         /\ IF ShouldCheck(Sat(failures + 1), cb_state)
            THEN lk' = KLeave(lk, t, "breaker_lock", "f2")
            ELSE \E to \in {"cbk", "gate", lk.back[t]} :
                   lk' = KLeave(lk, t, "breaker_lock", to)
    /\ failures' = Sat(failures + 1)
    /\ UNCHANGED cb_state
    /\ KKeepFlag

\* record_failure: with self.lock, after check_internet_connectivity: open and
\* call on_breaker_open with the lock held, or set the count back
KRecheck ==
    /\ \E t \in LockThreads :
         /\ KAt(t, "in_f2")
         /\ IF ShouldCheck(failures, cb_state)
            THEN \E has_internet \in BOOLEAN :
                   IF has_internet
                   THEN /\ cb_state' = "OPEN"
                        /\ failures' = failures
                        /\ lk' = [lk EXCEPT !.at[t] = "open_cb"]
                   ELSE /\ cb_state' = cb_state
                        /\ failures' = CappedFailures(failures)
                        /\ \E to \in {"cbk", "gate", lk.back[t]} :
                             lk' = KLeave(lk, t, "breaker_lock", to)
            ELSE /\ UNCHANGED <<cb_state, failures>>
                 /\ \E to \in {"cbk", "gate", lk.back[t]} :
                      lk' = KLeave(lk, t, "breaker_lock", to)
    /\ KKeepFlag

\* on_circuit_breaker_open returns, then record_failure leaves self.lock
KOpened ==
    /\ \E t \in LockThreads :
         /\ KAt(t, "in_open_cb")
         /\ \E to \in {"cbk", "gate", lk.back[t]} :
              lk' = KLeave(KLeave(lk, t, CallbackLock, to), t, "breaker_lock", to)
    /\ KKeepFlag
    /\ KKeepBreaker

\* on_network_connection_weak / _lost / _restored: with state_lock
KCallback ==
    /\ \E t \in LockThreads :
         /\ KAt(t, "in_cbk")
         /\ \E to \in {"gate", lk.back[t]} : lk' = KLeave(lk, t, "state_lock", to)
    /\ KKeepFlag
    /\ KKeepBreaker

locksothers ==
    <<last_failure_time, now, pc, ev, nfailed, consec, probe_ever_ok, closed_since_open,
      ever_rejected, capped, rmvars, state, state_before_connection_issue,
      ack_complete_event, pending_message_ids, collections_file, calls, rv, handled,
      tp, sw, cbk, rest, order, fl, hw, th, gh>>

InitSide ==
    /\ hw = NoWaits
    /\ th = InitThreads
    /\ gh = NoHeadersCall
    /\ lk = InitLocks

----------------------------------------------------------------------------
(* Specifications                                                           *)

Init == InitBreaker /\ InitRecovery /\ InitDevice /\ InitSide

\* The circuit breaker under concurrent callers.
Next ==
    \/ Tick /\ UNCHANGED <<rmvars, devvars>>
    \/ \E t \in Callers : CallGate(t) /\ UNCHANGED <<rmvars, devvars>>
    \/ \E t \in Callers : CallSuccess(t) /\ UNCHANGED <<rmvars, devvars>>
    \/ \E t \in Callers : RecordFailureCount(t) /\ UNCHANGED <<rmvars, devvars>>
    \/ \E t \in Callers : RecordFailureRecheck(t) /\ UNCHANGED <<rmvars, devvars>>

Spec == Init /\ [][Next]_vars

\* The RecoveryManager driven through its public methods.
NextQueue ==
    \/ \E id \in AckIds : QHandleCriticalFailure(id) /\ UNCHANGED <<cbvars, devvars>>
    \/ QRetryPendingAcks /\ UNCHANGED <<cbvars, devvars>>
    \/ QRestart /\ UNCHANGED <<cbvars, devvars>>
    \/ RpaNext /\ UNCHANGED <<cbvars, devvars>>
    \/ SaveOpen /\ UNCHANGED <<cbvars, devvars>>
    \/ SaveWrite /\ UNCHANGED <<cbvars, devvars>>
    \/ HcfAdd /\ UNCHANGED <<cbvars, devvars>>
    \/ HcfLoop /\ UNCHANGED <<cbvars, devvars>>
    \/ HcfReboot /\ UNCHANGED <<cbvars, devvars>>
    \/ HcfRetry /\ UNCHANGED <<cbvars, devvars>>
    \/ HcfGot /\ UNCHANGED <<cbvars, devvars>>

SpecQueue == Init /\ [][NextQueue]_vars

\* The orchestrator: process start, then acknowledgments from the main loop.
NextApp ==
    \/ AppStart /\ UNCHANGED <<cbvars, devvars>>
    \/ AppRestart /\ UNCHANGED <<cbvars, devvars>>
    \/ \E id \in AckIds : AppAck(id) /\ UNCHANGED <<cbvars, devvars>>
    \/ AckTry /\ UNCHANGED <<cbvars, devvars>>
    \/ AckGot /\ UNCHANGED <<cbvars, devvars>>
    \/ AckEnd /\ UNCHANGED <<cbvars, devvars>>
    \/ PostSend /\ UNCHANGED <<cbvars, devvars>>
    \/ PostAfterLost /\ UNCHANGED <<cbvars, devvars>>
    \/ SaveOpen /\ UNCHANGED <<cbvars, devvars>>
    \/ SaveWrite /\ UNCHANGED <<cbvars, devvars>>
    \/ HcfAdd /\ UNCHANGED <<cbvars, devvars>>
    \/ HcfLoop /\ UNCHANGED <<cbvars, devvars>>
    \/ HcfReboot /\ UNCHANGED <<cbvars, devvars>>
    \/ HcfRetry /\ UNCHANGED <<cbvars, devvars>>
    \/ HcfGot /\ UNCHANGED <<cbvars, devvars>>

SpecApp == Init /\ [][NextApp]_vars


\* The polling thread with the network client and the recovery in detail; the
\* flag threads it starts and the button do not run.
NextDevice ==
    \/ ReqElsewhere /\ UNCHANGED othervars
    \/ MStart /\ UNCHANGED othervars
    \/ MCfgDone /\ UNCHANGED othervars
    \/ MInitCups /\ UNCHANGED othervars
    \/ MCupsUp /\ UNCHANGED othervars
    \/ MIdle /\ UNCHANGED othervars
    \/ MPoll /\ UNCHANGED othervars
    \/ MPollDone /\ UNCHANGED othervars
    \/ MImage /\ UNCHANGED othervars
    \/ MImageDone /\ UNCHANGED othervars
    \/ \E s \in FaultStates : MTrackFault(s) /\ UNCHANGED othervars
    \/ MTrackClear /\ UNCHANGED othervars
    \/ MTrackDone /\ UNCHANGED othervars
    \/ MSetReceived /\ UNCHANGED othervars
    \/ MAppend /\ UNCHANGED othervars
    \/ MSaveOpen /\ UNCHANGED othervars
    \/ MSaveWrite /\ UNCHANGED othervars
    \/ MStartFlag /\ UNCHANGED othervars
    \/ MAck /\ UNCHANGED othervars
    \/ MAckDone /\ UNCHANGED othervars
    \/ MAckRet /\ UNCHANGED othervars
    \/ MSetAckComplete /\ UNCHANGED othervars
    \/ MFail /\ UNCHANGED othervars
    \/ MEnd /\ UNCHANGED othervars
    \/ ReqCall(MainThread) /\ UNCHANGED othervars
    \/ ReqAfter(MainThread) /\ UNCHANGED othervars
    \/ ReqWeak(MainThread) /\ UNCHANGED othervars
    \/ ReqRestored(MainThread) /\ UNCHANGED othervars
    \/ ReqNext(MainThread) /\ UNCHANGED othervars
    \/ ReqLost(MainThread) /\ UNCHANGED othervars
    \/ ReqLostRecovery(MainThread) /\ UNCHANGED othervars
    \/ ReqRaise(MainThread) /\ UNCHANGED othervars
    \/ RecLoop(MainThread) /\ UNCHANGED othervars
    \/ RebootModem(MainThread) /\ UNCHANGED othervars
    \/ RebootModemEnd(MainThread) /\ UNCHANGED othervars
    \/ RecRetry(MainThread) /\ UNCHANGED othervars
    \/ RecGot(MainThread) /\ UNCHANGED othervars

SpecDevice == Init /\ [][NextDevice]_vars

\* The polling thread, the flag threads and the button, interleaved; a request
\* and a recovery are reduced to their outcome.
NextFlag ==
    \/ MStart /\ UNCHANGED othervars
    \/ MCfgDone /\ UNCHANGED othervars
    \/ MInitCups /\ UNCHANGED othervars
    \/ MCupsUp /\ UNCHANGED othervars
    \/ MIdle /\ UNCHANGED othervars
    \/ MPoll /\ UNCHANGED othervars
    \/ MPollDone /\ UNCHANGED othervars
    \/ MImage /\ UNCHANGED othervars
    \/ MImageDone /\ UNCHANGED othervars
    \/ \E s \in FaultStates : MTrackFault(s) /\ UNCHANGED othervars
    \/ MTrackClear /\ UNCHANGED othervars
    \/ MTrackDone /\ UNCHANGED othervars
    \/ MSetReceived /\ UNCHANGED othervars
    \/ MAppend /\ UNCHANGED othervars
    \/ MSaveOpen /\ UNCHANGED othervars
    \/ MSaveWrite /\ UNCHANGED othervars
    \/ MStartFlag /\ UNCHANGED othervars
    \/ MAck /\ UNCHANGED othervars
    \/ MAckDone /\ UNCHANGED othervars
    \/ MAckRet /\ UNCHANGED othervars
    \/ MSetAckComplete /\ UNCHANGED othervars
    \/ MFail /\ UNCHANGED othervars
    \/ MEnd /\ UNCHANGED othervars
    \/ \E i \in Messages : FCheck(i) /\ UNCHANGED othervars
    \/ \E i \in Messages : FRaise(i) /\ UNCHANGED othervars
    \/ \E i \in Messages : FServoUp(i) /\ UNCHANGED othervars
    \/ \E i \in Messages : FWait(i) /\ UNCHANGED othervars
    \/ \E i \in Messages : FServoDown(i) /\ UNCHANGED othervars
    \/ \E i \in Messages : FUnflag(i) /\ UNCHANGED othervars
    \/ \E i \in Messages : FAckCheck(i) /\ UNCHANGED othervars
    \/ \E i \in Messages : FAckWait(i) /\ UNCHANGED othervars
    \/ \E i \in Messages : FFlush(i) /\ UNCHANGED othervars
    \/ \E i \in Messages : FFlushSave(i) /\ UNCHANGED othervars
    \/ \E i \in Messages : FReset(i) /\ UNCHANGED othervars
    \/ \E i \in Messages : FExcept(i) /\ UNCHANGED othervars
    \/ \E i \in Messages : FExceptUnflag(i) /\ UNCHANGED othervars
    \/ BPress /\ UNCHANGED othervars
    \/ BSave /\ UNCHANGED othervars
    \/ BSent /\ UNCHANGED othervars
    \/ \E t \in Threads : ReqOutcome(t) /\ UNCHANGED othervars
    \/ \E t \in Threads : RecOutcome(t) /\ UNCHANGED othervars

SpecFlag == Init /\ [][NextFlag]_vars

\* track_print on one job.
NextPrint == TpStart \/ TpProcessing \/ TpOtherState \/ TpMissing \/ TpRaises

SpecPrint == Init /\ [][NextPrint]_vars

\* handle_critical_failure's wait schedule, for any parameters.
NextWaits ==
    \/ WStart /\ UNCHANGED <<cbvars, rmvars, devcore, th, gh, lk>>
    \/ WNotTriggered /\ UNCHANGED <<cbvars, rmvars, devcore, th, gh, lk>>
    \/ WSleep /\ UNCHANGED <<cbvars, rmvars, devcore, th, gh, lk>>
    \/ WRetry /\ UNCHANGED <<cbvars, rmvars, devcore, th, gh, lk>>
    \/ WGiveUp /\ UNCHANGED <<cbvars, rmvars, devcore, th, gh, lk>>

SpecWaits == Init /\ [][NextWaits]_vars

\* The polling thread and a flag thread as writers of the device state.
NextState ==
    \/ \E t \in StateThreads : LGood(t) /\ UNCHANGED stateothers
    \/ \E t \in StateThreads : LRefused(t) /\ UNCHANGED stateothers
    \/ \E t \in StateThreads : LFails(t) /\ UNCHANGED stateothers
    \/ \E t \in StateThreads : LFirstFailure(t) /\ UNCHANGED stateothers
    \/ \E t \in StateThreads : LExhausted(t) /\ UNCHANGED stateothers
    \/ \E t \in StateThreads : LGiveUp(t) /\ UNCHANGED stateothers
    \/ \E t \in StateThreads : LReboot(t) /\ UNCHANGED stateothers
    \/ \E t \in StateThreads : LRebootEnd(t) /\ UNCHANGED stateothers
    \/ \E t \in StateThreads : LProbed(t) /\ UNCHANGED stateothers
    \/ PPoll /\ UNCHANGED stateothers
    \/ PPolled /\ UNCHANGED stateothers
    \/ PImage /\ UNCHANGED stateothers
    \/ PAck /\ UNCHANGED stateothers
    \/ PAcked /\ UNCHANGED stateothers
    \/ PAckDone /\ UNCHANGED stateothers
    \/ PAfter /\ UNCHANGED stateothers
    \/ LFlagUp /\ UNCHANGED stateothers
    \/ LFlagDown /\ UNCHANGED stateothers
    \/ LAckCheck /\ UNCHANGED stateothers
    \/ LAckWait /\ UNCHANGED stateothers
    \/ LSend /\ UNCHANGED stateothers
    \/ LSent /\ UNCHANGED stateothers
    \/ LReset /\ UNCHANGED stateothers

SpecState == Init /\ [][NextState]_vars

\* The users of the four locks: the polling thread, a flag thread, the button
\* thread and the LED thread, with every step of their requests.
NextLocks ==
    \/ KAcquire /\ UNCHANGED locksothers
    \/ KPoll(FALSE) /\ UNCHANGED locksothers
    \/ KPolled({"flag1"}) /\ UNCHANGED locksothers
    \/ KIncoming /\ UNCHANGED locksothers
    \/ KAppend({"flag1"}, FALSE) /\ UNCHANGED locksothers
    \/ KAfter /\ UNCHANGED locksothers
    \/ KCheck /\ UNCHANGED locksothers
    \/ KSet /\ UNCHANGED locksothers
    \/ KWait /\ UNCHANGED locksothers
    \/ KServoRaises /\ UNCHANGED locksothers
    \/ KUnset /\ UNCHANGED locksothers
    \/ KAckState /\ UNCHANGED locksothers
    \/ KFlush(FALSE) /\ UNCHANGED locksothers
    \/ KReset /\ UNCHANGED locksothers
    \/ KExcState /\ UNCHANGED locksothers
    \/ KExcUnflag /\ UNCHANGED locksothers
    \/ KPressed /\ UNCHANGED locksothers
    \/ KButtonFlush(FALSE) /\ UNCHANGED locksothers
    \/ KLed /\ UNCHANGED locksothers
    \/ KGate /\ UNCHANGED locksothers
    \/ KFunc /\ UNCHANGED locksothers
    \/ KSuccess /\ UNCHANGED locksothers
    \/ KCount /\ UNCHANGED locksothers
    \/ KRecheck /\ UNCHANGED locksothers
    \/ KOpened /\ UNCHANGED locksothers
    \/ KCallback /\ UNCHANGED locksothers

SpecLocks == Init /\ [][NextLocks]_vars

\* The polling thread, two flag threads and the button thread around flag_lock,
\* with each request taken as one step.
NextFlagLock ==
    \/ KAcquire /\ UNCHANGED locksothers
    \/ KPoll(TRUE) /\ UNCHANGED locksothers
    \/ KPolled(FlagThreads) /\ UNCHANGED locksothers
    \/ KIncoming /\ UNCHANGED locksothers
    \/ KAppend(FlagThreads, TRUE) /\ UNCHANGED locksothers
    \/ KAfter /\ UNCHANGED locksothers
    \/ KCheck /\ UNCHANGED locksothers
    \/ KSet /\ UNCHANGED locksothers
    \/ KWait /\ UNCHANGED locksothers
    \/ KServoRaises /\ UNCHANGED locksothers
    \/ KUnset /\ UNCHANGED locksothers
    \/ KAckState /\ UNCHANGED locksothers
    \/ KFlush(TRUE) /\ UNCHANGED locksothers
    \/ KReset /\ UNCHANGED locksothers
    \/ KExcState /\ UNCHANGED locksothers
    \/ KExcUnflag /\ UNCHANGED locksothers
    \/ KPressed /\ UNCHANGED locksothers
    \/ KButtonFlush(TRUE) /\ UNCHANGED locksothers

SpecFlagLock == Init /\ [][NextFlagLock]_vars

\* getHeaders with the worker thread of its executor.
NextHeaders ==
    \/ GHCall /\ UNCHANGED headersothers
    \/ GHWorkerEnds /\ UNCHANGED headersothers
    \/ GHTick /\ UNCHANGED headersothers
    \/ GHResult /\ UNCHANGED headersothers
    \/ GHExit /\ UNCHANGED headersothers
    \/ GHReturn /\ UNCHANGED headersothers
    \/ GHStateWritten /\ UNCHANGED headersothers

SpecHeaders == Init /\ [][NextHeaders]_vars

\* The same with a caller that keeps running and a clock that keeps ticking;
\* nothing makes the modem answer, so the worker has no fairness condition.
SpecHeadersLive ==
    /\ SpecHeaders
    /\ WF_vars(GHCaller /\ UNCHANGED headersothers)
    /\ WF_vars(GHTick /\ UNCHANGED headersothers)

\* The steps of the flag thread started for message i.
FlagRun(i) ==
    /\ \/ ReqOutcome(FlagThread(i)) \/ RecOutcome(FlagThread(i))
       \/ FCheck(i)
       \/ FRaise(i)
       \/ FServoUp(i)
       \/ FWait(i)
       \/ FServoDown(i)
       \/ FUnflag(i)
       \/ FAckCheck(i)
       \/ FAckWait(i)
       \/ FFlush(i)
       \/ FFlushSave(i)
       \/ FReset(i)
       \/ FExcept(i)
       \/ FExceptUnflag(i)
    /\ UNCHANGED othervars

\* SpecFlag with the scheduler's guarantee: a flag thread that can take a step
\* is not left waiting forever. Nothing is assumed of the button.
SpecFlagLive == SpecFlag /\ \A i \in Messages : WF_vars(FlagRun(i))

----------------------------------------------------------------------------
(* Claims about the circuit breaker (specification Spec)                    *)

\* The number of callers between record_failure's two critical sections.
InRecordFailure == Cardinality({t \in Callers : pc[t] = "probe"})

\* The last step moved the breaker into OPEN.
EnteredOpen == cb_state = "OPEN" /\ ev.pre # "OPEN"

\* C1 (as claimed): when the failure count has reached the threshold and the
\* probe succeeds the breaker becomes OPEN and on_breaker_open fires once; the
\* breaker enters OPEN (and on_breaker_open fires) only if it never opened
\* before or a HALF_OPEN trial call has succeeded and closed it since.
C1_ReopensOnlyAfterSuccessfulTrial ==
    /\ (ev.op = "rf_recheck" /\ ev.probe = "up" /\ ev.f0 >= failure_threshold
            /\ ev.pre # "OPEN") => (cb_state = "OPEN" /\ ev.on_open)
    /\ EnteredOpen <=> ev.on_open
    /\ ev.on_open => ev.cso0

\* C1 (amended): as above, but a HALF_OPEN trial that fails while the probe
\* succeeds also re-opens the breaker and fires on_breaker_open again: OPEN is
\* entered only from HALF_OPEN (failed trial after the cooldown) or from a
\* breaker that never opened or was closed by a successful trial.
C1_OpensOncePerTrial ==
    /\ (ev.op = "rf_recheck" /\ ev.probe = "up" /\ ev.f0 >= failure_threshold
            /\ ev.pre # "OPEN") => (cb_state = "OPEN" /\ ev.on_open)
    /\ EnteredOpen <=> ev.on_open
    /\ ev.on_open => (ev.pre = "HALF_OPEN" \/ (ev.pre = "CLOSED" /\ ev.cso0))
    /\ ev.on_open => (ev.op = "rf_recheck" /\ ev.f0 >= failure_threshold)

\* C1 witness: the breaker opened, was closed by a successful trial, and has
\* just opened again with a second on_breaker_open.
C1_Witness ==
    ev.on_open /\ ev.pre = "CLOSED" /\ ever_rejected /\ cb_state = "OPEN"

\* C2 (as claimed): while no probe has succeeded the breaker is never OPEN and
\* failures <= threshold - 1 in every state, the states between the steps of
\* concurrent callers included.
C2_NeverAboveCapInAnyState ==
    ~probe_ever_ok => (cb_state # "OPEN" /\ failures <= failure_threshold - 1)

\* C2 (amended): while no probe has succeeded the breaker is never OPEN, and
\* failures exceeds threshold - 1 by at most the number of callers that are
\* between record_failure's increment and its re-check; so it is at most
\* threshold - 1 whenever no caller is inside record_failure.
C2_CappedOutsideRecordFailure ==
    ~probe_ever_ok =>
        /\ cb_state # "OPEN"
        /\ failures <= failure_threshold - 1 + InRecordFailure

\* C2 witness: two callers failed concurrently, the counter went above the
\* threshold, and a failed probe has capped it.
C2_Witness ==
    /\ ~probe_ever_ok
    /\ ev.op = "rf_recheck" /\ ev.probe = "down" /\ ev.f0 > failure_threshold
    /\ failures = failure_threshold - 1
    /\ cb_state = "CLOSED"

\* C3: from a CLOSED breaker with failures = 0, after fewer than threshold
\* failed calls the breaker is still CLOSED.
C3_ClosedBelowThreshold ==
    nfailed < failure_threshold => cb_state = "CLOSED"

\* C3 witness: threshold - 1 calls have failed and every caller is back.
C3_Witness ==
    /\ nfailed = failure_threshold - 1
    /\ failures = failure_threshold - 1
    /\ \A t \in Callers : pc[t] = "idle"
    /\ ev.out = "raised"

\* C4 (as claimed): a successful call on a CLOSED breaker clears the failure
\* count, and the breaker opens from CLOSED only when threshold calls have
\* failed with no successful call in between.
C4_CountsConsecutiveFailures ==
    /\ (ev.op = "func_ok" /\ ev.pre = "CLOSED") => failures = 0
    /\ (ev.on_open /\ ev.pre = "CLOSED") => consec >= failure_threshold

\* C5 (as claimed): a successful HALF_OPEN trial call closes the breaker with
\* failures = 0, invokes on_breaker_close and returns the result.
C5_TrialSuccessFiresOnClose ==
    (ev.op = "func_ok" /\ ev.pre = "HALF_OPEN") =>
        /\ cb_state = "CLOSED"
        /\ failures = 0
        /\ ev.out = "returned"
        /\ ev.on_close

\* C6 (as claimed): once a failed call has been recorded on a HALF_OPEN
\* breaker, whatever the probe reported, the breaker is OPEN.
C6_FailedTrialReopens ==
    (ev.op \in {"rf_count", "rf_recheck"} /\ ev.out = "raised" /\ ev.pre = "HALF_OPEN")
        => cb_state = "OPEN"

\* C6 (amended): a failed call recorded on a HALF_OPEN breaker always runs the
\* probe (the count is at the threshold). If the probe succeeds, and the count
\* is still at the threshold at the re-check, the breaker returns to OPEN and
\* on_breaker_open fires; otherwise it stays HALF_OPEN with failures capped at
\* threshold - 1 or below.
C6_FailedTrialReopensIfProbeUp ==
    /\ (ev.op = "rf_count" /\ ev.pre = "HALF_OPEN") =>
          (cb_state = "HALF_OPEN" /\ pc[ev.t] = "probe" /\ ev.out = "none")
    /\ (ev.op = "rf_recheck" /\ ev.pre = "HALF_OPEN") =>
          IF ev.probe = "up" /\ ev.f0 >= failure_threshold
          THEN cb_state = "OPEN" /\ ev.on_open /\ failures = ev.f0
          ELSE cb_state = "HALF_OPEN" /\ failures <= failure_threshold - 1

\* C6 witness: a trial call failed, the probe failed too, and the breaker is
\* still HALF_OPEN with the count capped.
C6_Witness ==
    /\ ev.op = "rf_recheck" /\ ev.pre = "HALF_OPEN" /\ ev.probe = "down"
    /\ cb_state = "HALF_OPEN" /\ failures = failure_threshold - 1
    /\ \A t \in Callers : pc[t] = "idle"

\* C7: a call that starts on an OPEN breaker within the cooldown is refused
\* without invoking func and leaves state, failures and last_failure_time as
\* they were; one that starts after the cooldown makes the breaker HALF_OPEN
\* and invokes func.
C7_GateWhileOpen ==
    (ev.op = "gate" /\ ev.pre = "OPEN") =>
        IF ev.at - ev.lft0 <= cooldown
        THEN /\ ev.out = "rejected"
             /\ pc[ev.t] = "idle"
             /\ cb_state = "OPEN"
             /\ failures = ev.f0
             /\ last_failure_time = ev.lft0
        ELSE /\ ev.out = "invoke"
             /\ pc[ev.t] = "func"
             /\ cb_state = "HALF_OPEN"
             /\ failures = ev.f0
             /\ last_failure_time = ev.lft0

\* C7 witness: a call was refused earlier and this one, the first after the
\* cooldown, has made the breaker HALF_OPEN and is inside func.
C7_Witness ==
    /\ ever_rejected
    /\ ev.op = "gate" /\ ev.pre = "OPEN" /\ ev.out = "invoke"
    /\ cb_state = "HALF_OPEN" /\ pc[ev.t] = "func"

----------------------------------------------------------------------------
(* Claims about the durable queue (specification SpecQueue)                 *)

\* C8 (as claimed): an entry whose add_pending_ack has completed is in the
\* queue that a restart at this point would rebuild from the file, until a
\* retry of it returns success; a failed replay (False or an exception) leaves
\* it in the queue with its retry_count raised by one.
C8_QueuedAckSurvivesRestart ==
    /\ obligations \subseteq DOMAIN LoadQueue(queue_file)
    /\ replay.res \in {"false", "raise"} =>
          /\ Has(pending_acks, replay.id)
          /\ pending_acks[replay.id] = replay.rc0 + 1

\* Lemma for C8: the same, as long as no restart has hit a half-written file and
\* the file is not being written at this point.
C8_SurvivesRestartBetweenWrites ==
    (~torn_restart /\ queue_file.kind # "torn") =>
        /\ obligations \subseteq DOMAIN LoadQueue(queue_file)
        /\ replay.res \in {"false", "raise"} =>
              /\ Has(pending_acks, replay.id)
              /\ pending_acks[replay.id] = replay.rc0 + 1

\* C12 (as claimed): at every point at which the process can die, the points
\* inside _save_queue included, the queue file is missing (never written) or
\* holds a complete JSON document, the previous contents or the new ones; so
\* no restart has found a half-written file.
C12_QueueFileAlwaysComplete ==
    /\ queue_file.kind \in {"absent", "json"}
    /\ ~torn_restart

----------------------------------------------------------------------------
(* Claims about the acknowledgment path (specification SpecApp)             *)

\* C9 (as claimed): when ack_message or ackCommand returns without having
\* delivered the acknowledgment, an entry for its id is in pending_acks and in
\* the queue file, whatever the connection type.
C9_FailedAckIsQueued ==
    (ack_result.done /\ ~ack_result.delivered) =>
        /\ Has(pending_acks, ack_result.id)
        /\ Has(LoadQueue(queue_file), ack_result.id)

\* Lemma for C9: the same for the returns that did not take the wifi exit.
C9_FailedAckIsQueuedOffWifi ==
    (ack_result.done /\ ~ack_result.delivered /\ ack_result.conn # "wifi") =>
        /\ Has(pending_acks, ack_result.id)
        /\ Has(LoadQueue(queue_file), ack_result.id)

\* C10 (as claimed): when start-up has finished and the main loop runs, a
\* delivery has been attempted for every entry loaded from the queue file.
C10_LoadedAcksRetriedAtStartup ==
    main_pc = "loop" => loaded \subseteq attempted

----------------------------------------------------------------------------
(* Claims about the device state (specification SpecDevice)                 *)

\* C13: in a run of on_network_connection_weak / on_network_connection_lost /
\* on_circuit_breaker_open callbacks with no on_network_connection_restored
\* in between, only the first writes state_before_connection_issue, and the
\* restored callback that follows sets state to the state held before that
\* first callback and clears the slot.
C13_SlotWrittenOnceAndRestoredExactly ==
    /\ ~cbk.rewritten
    /\ rest.n > 0 => rest.exact /\ rest.cleared

\* C14: every write of state is made inside "with state_lock:".
C14_StateWrittenUnderLock == sw.locked

----------------------------------------------------------------------------
(* Claims about the flag sequence (specification SpecFlag)                  *)

IsPrefix(a, b) == Len(a) <= Len(b) /\ a = SubSeq(b, 1, Len(a))

\* C19: when print tracking succeeds, handle_message sets the state to
\* MESSAGE_RECEIVED, appends the id to the pending-collection list and
\* persists it, starts the flag thread, calls ack_message, and sets the
\* ack-complete event only after ack_message has returned: the steps taken so
\* far are always an initial part of that order.
C19_PrintedMessageOrder ==
    /\ IsPrefix(order, <<"state", "append", "persist", "flag_start", "ack_call",
                         "ack_return", "ack_set">>)
    /\ \A i \in Messages :
         ack_complete_event[i] = "set" => fl[i].ack \in {"delivered", "failed"}

\* C19 witness: a printed message went through all the steps.
C19_Witness ==
    /\ Len(order) = 7
    /\ \E i \in Messages : ack_complete_event[i] = "set" /\ DDepth(FlagThread(i)) > 0

\* C20: after the button press the flag thread flushes the pending list, and
\* writes IDLE, only once the server has confirmed the acknowledgment or the
\* wait on the ack-complete event has timed out.
C20_FlushAndIdleWaitForAck ==
    \A i \in Messages :
      /\ fl[i].flushed => fl[i].ack_at_flush = "delivered" \/ fl[i].wait = "timeout"
      /\ fl[i].pressed /\ fl[i].idle =>
            fl[i].ack_at_idle = "delivered" \/ fl[i].wait = "timeout"

----------------------------------------------------------------------------
(* Claims about print tracking (specification SpecPrint)                    *)

\* the last poll found the job processing
PolledProcessing == tp.pc # "off" /\ tp.obs.kind = "found" /\ tp.obs.js = 5

\* The precedence of C15: the state a set of reasons stands for, "None" when
\* it holds none of the four keywords.
C15_Precedence(R) ==
    IF "marker-supply-empty-error" \in R /\ "input-tray-missing" \in R
    THEN "OUT_OF_INK_AND_PAPER"
    ELSE IF "media-empty-error" \in R THEN "OUT_OF_PAPER"
    ELSE IF "marker-supply-empty-error" \in R THEN "OUT_OF_INK"
    ELSE IF "input-tray-missing" \in R THEN "OUT_OF_PAPER"
    ELSE IF "media-jam-error" \in R THEN "PAPER_JAM"
    ELSE "None"

\* C15: for every set of fault reasons reported while the job is processing,
\* a set of exactly one reason included, track_print sets the state by the
\* precedence ink and tray -> OUT_OF_INK_AND_PAPER, media-empty ->
\* OUT_OF_PAPER, marker-empty -> OUT_OF_INK, tray-missing -> OUT_OF_PAPER,
\* media-jam -> PAPER_JAM.
C15_StateFollowsPrecedence ==
    PolledProcessing /\ C15_Precedence(tp.obs.reasons) # "None"
        => state = C15_Precedence(tp.obs.reasons)

\* C16: while the job stays processing and the polls classify the same fault,
\* the fault is logged and send_status is called exactly once for it, however
\* many polls see it.
C16_SameFaultReportedOnce ==
    tp.pc # "off" /\ tp.streak.fault # "None" => tp.streak.reports = 1

\* C16 witness: one fault was classified by every poll of the job.
C16_Witness ==
    /\ tp.pc # "off"
    /\ tp.streak.polls = MaxPolls
    /\ tp.sent = 1

\* C17: when a fault has been reported and a later poll finds the job still
\* processing with none of the known fault reasons, track_print sets the state
\* to INCOMING_TRANSMISSION, forgets the last fault and sends one status
\* update.
C17_ClearedWhenNoKnownReason ==
    PolledProcessing /\ tp.before # "None" /\ tp.obs.reasons \cap KnownReasons = {}
        => state = "INCOMING_TRANSMISSION" /\ tp.last_error = "None" /\ tp.did = "clear"

\* what C18 says of a call of track_print that has polled or returned
C18_Outcome ==
    /\ tp.pc = "done" => (tp.result = "True" <=> tp.completed \/ tp.gone)
    /\ tp.completed \/ tp.gone => tp.pc = "done"
    /\ \/ tp.obs.kind = "found" /\ tp.obs.js \in {7, 8}
       \/ tp.obs.kind = "missing" /\ ~tp.job_found /\ tp.obs.late
       \/ tp.obs.kind = "raises"
       => tp.pc = "done" /\ tp.result = "False"
    /\ tp.pc = "done" => tp.polls = tp.returned_at

\* C18: track_print returns True exactly when the job was seen completed, or
\* went missing after it had been seen; it returns False when the job is
\* canceled or aborted, was never seen within the grace time, or a poll
\* raised; once it has returned the job is polled no more.
C18_SuccessIffCompletedOrGone == tp.pc # "off" => C18_Outcome

\* C18, amended: the same, for a job that was handed to CUPS (not the job id
\* -1 of the no_print mode, for which True is returned without any poll).
C18_RealJobSuccessIffCompletedOrGone ==
    tp.pc # "off" /\ tp.job_id # SimulatedJob => C18_Outcome

\* C18 witness: a job that was seen went missing, and track_print returned True.
C18_Witness ==
    /\ tp.pc = "done"
    /\ tp.job_id = JobId
    /\ tp.gone
    /\ tp.result = "True"

\* C21: when the image download, the print submission or the print tracking of
\* a message with a valid id fails, no flag thread is started for it and
\* ack_message has been called for it by the time handle_message returns.
C21_FailedMessageAckedNotFlagged ==
    /\ At(MainThread, "main", "cm_end")
    /\ DTop(MainThread).cb \in {"no_image", "no_job", "failed"}
    => /\ fl[DTop(MainThread).msg].ack \in {"delivered", "failed"}
       /\ ack_complete_event[DTop(MainThread).msg] = "none"

\* the ids of a sequence
Ids(q) == {q[n] : n \in 1..Len(q)}

\* the thread has just come back from send_collection_event(ids_to_send)
AfterSend(t) ==
    /\ DDepth(t) = 1
    /\ DTop(t).pc \in {"reset", "sent"}
    /\ DTop(t).ids # << >>

\* C22: a message id leaves the persisted pending-collection list only when a
\* collection notification holding it was sent successfully; after a send
\* that failed the id is still in the list, in memory and on disk.
C22_IdKeptWhenSendFails ==
    \A t \in Threads :
      AfterSend(t) /\ rv[t] = "fail"
        => /\ Ids(DTop(t).ids) \subseteq Ids(pending_message_ids)
           /\ Ids(DTop(t).ids) \subseteq Ids(collections_file.ids)

\* C23: once the flag is raised, raise_flag lowers it and finishes, even when
\* no button press is ever delivered (specification SpecFlagLive).
C23_RaisedFlagIsLowered ==
    \A i \in Messages :
      At(FlagThread(i), "flag", "wait") ~> (DDepth(FlagThread(i)) = 0)

----------------------------------------------------------------------------
(* Further claims about the acknowledgment path (specification SpecApp)     *)

\* C24: when handle_critical_failure reports final failure for an
\* acknowledgment, the orchestrator escalates (the failure reaches the main
\* loop's catch-all, or the device is rebooted): ack_message / ackCommand does
\* not return to its caller as if nothing had happened.
C24_FinalFailureEscalates ==
    ~ /\ ack_result.done
      /\ ~ack_result.delivered
      /\ hcf_result.done
      /\ hcf_result.id = ack_result.id
      /\ ~hcf_result.ret
      /\ main_pc = "loop"

----------------------------------------------------------------------------
(* Further claims about the circuit breaker (specification Spec)            *)

\* C29: the connectivity probe runs only when the failure count first reaches
\* the threshold: once a failed probe has capped the counter, a further failed
\* call does not run another probe.
C29_NoProbeAfterCap ==
    ev.op = "rf_count" /\ ev.out = "none" => ~ev.capped0

----------------------------------------------------------------------------
(* Claims about request_with_retry (specification SpecDevice)               *)

\* C25: when the breaker opens during a call sequence of request_with_retry
\* (on_breaker_open has run in it), on_connection_lost is not invoked for
\* that sequence.
C25_NoLostCallbackAfterOpen ==
    \A t \in Threads : At(t, "req", "cb_lost") => ~DTop(t).opened

\* thread t takes the step
StepOf(t) == calls'[t] # calls[t]
\* the step brings t's request_with_retry to fpc
Enters(t, fpc) ==
    /\ ~At(t, "req", fpc)
    /\ Len(calls'[t]) > 0
    /\ calls'[t][Len(calls'[t])].fn = "req"
    /\ calls'[t][Len(calls'[t])].pc = fpc
\* the step ends t's innermost activation with v
Leaves(t, v) ==
    /\ calls'[t] = SubSeq(calls[t], 1, DDepth(t) - 1)
    /\ rv'[t] = v
\* the attempt of t that has just been made failed / got a good response /
\* was refused by the breaker
AttemptFailed(t) == At(t, "req", "after") /\ DTop(t).r \in {"fail", "http_error"}
AttemptOk(t) == At(t, "req", "after") /\ DTop(t).r = "ok"
AttemptRefused(t) == At(t, "req", "after") /\ DTop(t).r = "rejected"

\* C26: request_with_retry goes to on_connection_weak exactly when attempt 0
\* of a sequence has failed while neither connection_weak nor
\* connection_failed is set: never on a later attempt, never while already
\* weak or failed; that step sets connection_weak.
C26_WeakExactlyOnFirstFailure ==
    [][\A t \in Threads :
         /\ Enters(t, "cb_weak")
              <=> /\ StepOf(t)
                  /\ AttemptFailed(t)
                  /\ DTop(t).att = 0
                  /\ ~connection_weak
                  /\ ~connection_failed
         /\ Enters(t, "cb_weak") => connection_weak']_vars

C26_Witness ==
    /\ At(MainThread, "req", "cb_weak")
    /\ DTop(MainThread).att = 0
    /\ connection_weak

\* C27: a good response while connection_weak or connection_failed is set
\* clears both flags and runs on_connection_restored once, after which the
\* response is returned; a good response with neither flag set is returned
\* with no callback.
C27_RestoredExactlyOnFlaggedSuccess ==
    [][\A t \in Threads :
         /\ Enters(t, "cb_restored")
              <=> /\ StepOf(t)
                  /\ AttemptOk(t)
                  /\ (connection_weak \/ connection_failed)
         /\ Enters(t, "cb_restored") => ~connection_weak' /\ ~connection_failed'
         /\ StepOf(t) /\ At(t, "req", "cb_restored")
              => Leaves(t, "ok") /\ cbk' = NoCallbacks /\ rest'.n = cbk.n
         /\ StepOf(t) /\ AttemptOk(t) /\ ~connection_weak /\ ~connection_failed
              => Leaves(t, "ok") /\ UNCHANGED <<statevars, connection_weak, connection_failed>>]_vars

C27_Witness ==
    /\ At(MainThread, "req", "cb_restored")
    /\ ~connection_weak
    /\ ~connection_failed

\* C28: on CircuitBreakerOpenException request_with_retry re-raises at once:
\* no further attempt, neither on_connection_weak nor on_connection_lost, and
\* connection_weak and connection_failed as they were.
C28_RefusalReraisedAtOnce ==
    [][\A t \in Threads :
         StepOf(t) /\ AttemptRefused(t)
           => /\ Leaves(t, "fail")
              /\ UNCHANGED <<statevars, connection_weak, connection_failed>>]_vars

C28_Witness ==
    /\ AttemptRefused(MainThread)
    /\ cb_state = "OPEN"

\* C39: a response with an HTTP error status is a success for the breaker:
\* the call that brings it does not increase failures, closes the breaker when
\* it was made in HALF_OPEN (an OPEN breaker whose cooldown is over goes to
\* HALF_OPEN in the same call) and leaves a closed breaker closed; for
\* request_with_retry it is a failed attempt: on_connection_weak or the
\* retry / exhaustion branch follows, never a return of the response.
C39_HttpErrorFailsAttemptNotBreaker ==
    [][\A t \in Threads :
         /\ At(t, "req", "call") /\ Enters(t, "after")
              /\ calls'[t][Len(calls'[t])].r = "http_error"
              => /\ failures' <= failures
                 /\ cb_state' = "CLOSED"
         /\ StepOf(t) /\ At(t, "req", "after") /\ DTop(t).r = "http_error"
              => Enters(t, "cb_weak") \/ Enters(t, "next")]_vars

\* an HTTP error status has come back on the trial call of a breaker that this
\* request had opened: the breaker is closed again, the attempt has failed
C39_Witness ==
    /\ At(MainThread, "req", "after")
    /\ DTop(MainThread).r = "http_error"
    /\ DTop(MainThread).opened
    /\ cb_state = "CLOSED"
    /\ failures = 0

----------------------------------------------------------------------------
(* Claims about the reboots of one acknowledgment (specification SpecDevice) *)

\* C30: one failed acknowledgment triggers at most max_reboots modem reboots
\* in all, those started by on_connection_lost and those of the
\* acknowledgment's own recovery taken together.
C30_AckRebootsWithinMax ==
    \A i \in Messages : fl[i].reboots <= max_reboots

----------------------------------------------------------------------------
(* Claims about the recovery's waits (specification SpecWaits)              *)

\* C31: the wait after the k-th triggered reboot of handle_critical_failure is
\* min(initial_wait * backoff_factor^(k-1), max_wait); no wait exceeds
\* max_wait, whatever the parameters, initial_wait > max_wait included.
C31_WaitIsCappedPower ==
    hw.pc = "slept"
      => /\ hw.slept = Min2(hw.initial_wait * Pow(hw.backoff_factor, hw.n - 1), hw.max_wait)
         /\ hw.slept <= hw.max_wait

----------------------------------------------------------------------------
(* Claims about nested recovery (specification SpecDevice)                  *)

\* thread t is inside a handle_critical_failure started by
\* on_network_connection_lost, at depth d of its stack
InLostRecovery(t, d) ==
    /\ d \in 1..DDepth(t)
    /\ calls[t][d].fn = "hcf"
    /\ calls[t][d].cb = "retry_connection"

\* C38: the recovery started by on_network_connection_lost is never nested:
\* while it runs, a failure of its own probe request (max_attempts = 1) does
\* not invoke on_connection_lost again.
C38_LostRecoveryNotNested ==
    \A t \in Threads : \A d \in 1..DDepth(t) :
      InLostRecovery(t, d)
        => \A e \in (d + 1)..DDepth(t) :
             ~(calls[t][e].fn = "req" /\ calls[t][e].pc \in {"cb_lost", "lost_rec", "raise"})

----------------------------------------------------------------------------
(* Claims about the device state under two threads (specification SpecState) *)

\* ConnectionWeak, NoConnection, CircuitBreakerOpen, ModemRebooting
TransientStates == IssueFamily \cup {"MODEM_REBOOTING"}

\* C32: state_before_connection_issue is empty or a non-transient state: it
\* never holds CONNECTION_WEAK, NO_CONNECTION, CIRCUIT_BREAKER_OPEN or
\* MODEM_REBOOTING, so a restore never puts the device into such a state.
C32_SlotNeverTransient ==
    state_before_connection_issue \notin TransientStates

\* handle_message is running / raise_flag is running
MessageBeingHandled == th["polling"].msg
FlagSequenceActive == th["flag"].pc # "off"

\* C34: whenever the state is MESSAGE_RECEIVED and no message is being
\* handled, a flag sequence is active: once raise_flag has finished the state
\* does not become MESSAGE_RECEIVED again until another message is printed.
C34_ReceivedOnlyWhileFlagActive ==
    state = "MESSAGE_RECEIVED" /\ ~MessageBeingHandled => FlagSequenceActive

\* C35: when every reboot_modem call that has started has returned, the
\* state is not MODEM_REBOOTING, however the calls of different threads
\* interleave.
C35_NoRebootingStateLeftBehind ==
    (\A t \in StateThreads : th[t].pc # "rebooting") => state # "MODEM_REBOOTING"

----------------------------------------------------------------------------
(* getHeaders                                                               *)

\* the caller's wait in future.result has timed out
TimedOut == gh.pc = "exit" /\ gh.got = "timeout"

\* C33: getHeaders returns once its timeout has passed, also when the modem
\* read never completes: from the moment future.result has timed out the
\* call goes on to return its headers.
C33_ReturnsAfterTimeout == TimedOut ~> gh.pc = "returned"

----------------------------------------------------------------------------
(* flag_lock: the button press and concurrent flag threads                  *)

\* the flag thread has passed the "flag already raised" check and has not yet
\* set flag_raised back: it raises the flag, waits for the button or lowers it
PastCheck(f) == lk.at[f] \in {"set", "in_set", "wait", "unset", "in_unset"}

\* C36: a press that on_button_pressed handled while flag_raised was set, and
\* that no flag thread has answered yet by resetting flag_raised, leaves
\* button_press_event set: nothing clears the event in between.
C36_PressKeepsEventSet == lk.pressed => button_press_event

\* C37: at most one flag sequence is active: two raise_flag threads are never
\* both past the "flag already raised" check with the flag not yet reset.
C37_OneFlagSequence ==
    \A f \in FlagThreads : \A g \in FlagThreads \ {f} : ~(PastCheck(f) /\ PastCheck(g))

----------------------------------------------------------------------------
(* The order in which the locks are taken                                   *)

\* t is not waiting for a lock, or the thread it waits for is, through at most
\* n holders that wait themselves, one that is not waiting for a lock
RECURSIVE Proceeds(_, _)
Proceeds(t, n) ==
    \/ WaitsOn(t) = "none"
    \/ n > 0 /\ Proceeds(WaitsOn(t), n - 1)

\* the thread stands at button_press_event.wait(), which has no timeout
AtEventWait(t) == lk.at[t] = "wait"

\* C40: no thread is blocked for ever on a lock: every chain of threads that
\* wait for each other's locks ends at a thread that is running; a thread that
\* holds a lock never stands at an event wait; and a thread takes a second
\* lock only as state_lock inside the breaker's lock.
C40_NoLockWaitForEver ==
    \A t \in LockThreads :
      /\ Proceeds(t, Cardinality(LockThreads))
      /\ KHeld(t) # {} => ~AtEventWait(t)
      /\ KHeld(t) # {} /\ Wanted(t) # "none"
           => KHeld(t) = {"breaker_lock"} /\ Wanted(t) = "state_lock"
      /\ Cardinality(KHeld(t)) > 1 => KHeld(t) = {"breaker_lock", "state_lock"}

\* a thread waits for the breaker's lock while its holder, inside
\* on_circuit_breaker_open, waits for state_lock, which a third thread holds
C40_Witness ==
    \E t \in LockThreads : \E u \in LockThreads \ {t} :
      /\ WaitsOn(t) = u
      /\ lk.at[u] = "open_cb"
      /\ WaitsOn(u) \notin {"none", t, u}

====
